---- MODULE Spec2Model ----
(***************************************************************************)
(* CRUD handlers of the Terraform provider (VPN gateway, CBS storage,      *)
(* route table entry, Kubernetes cluster attachment, Redis instance), the  *)
(* image data source, the provider configuration and the checks of the CDN *)
(* domain, as a state machine. One resource of one kind is managed; a      *)
(* handler runs from its entry to its return, one remote API call per      *)
(* step; the remote control plane moves on its own between the calls.      *)
(***************************************************************************)
EXTENDS Integers, Sequences, FiniteSets, TLC

VARIABLES
    res,       \* kind of the managed resource or of the function that runs
    remote,    \* the resource as the cloud control plane holds it
    id,        \* d.Id(): a sequence of tokens, <<>> is the empty string
    op,        \* handler Terraform is running, "none" between handlers
    cfg,       \* the handler's inputs: configuration and diff (d.Get, d.HasChange)
    pc,        \* position of the handler: the remote call it makes next
    attempts,  \* calls already made by the resource.Retry loop at pc
    calls,     \* call sites reached by the handler, in order of first call
    obs,       \* last response received at each call site
    partial,   \* keys recorded by d.SetPartial
    result     \* what the handler returned: "none" while it runs

vars == <<res, remote, id, op, cfg, pc, attempts, calls, obs, partial, result>>

\* Most calls one resource.Retry makes before its timeout elapses.
MaxPolls == 2
\* Largest disk size (storage_size) of the model.
MaxSize == 2

----------------------------------------------------------------------------
(* Errors of the vendor SDK and their classification *)

\* "net" is a transport error, not an SDK error; the others are codes of an SDK error.
VPCNotFound == "ResourceNotFound"
InternalError == "InternalError"
SdkCodes == {"RequestLimitExceeded", InternalError, VPCNotFound, "InvalidParameter"}
Errs == {"net"} \cup SdkCodes
IsSdkError(e) == e \in SdkCodes

\* Codes the provider always retries.
retryableErrorCode == {"RequestLimitExceeded"}

\* retryError(err, additionRetryableError...): "retry" for a RetryableError,
\* "fail" for a NonRetryableError.
retryError(e, additional) ==
    IF ~IsSdkError(e) THEN "retry"
    ELSE IF e \in retryableErrorCode \cup additional THEN "retry"
    ELSE "fail"

Range(s) == {s[i] : i \in DOMAIN s}
IndexOf(s, x) == IF x \in Range(s) THEN CHOOSE i \in DOMAIN s : s[i] = x ELSE 0
Obs(site) == IF site \in DOMAIN obs THEN obs[site] ELSE [err |-> "uncalled"]
Called(site) == site \in Range(calls)
Before(a, b) == Called(a) /\ Called(b) /\ IndexOf(calls, a) < IndexOf(calls, b)

\* strings.Split(s, sep) on a string held as a sequence of tokens.
RECURSIVE Split(_, _)
Split(s, sep) ==
    IF s = <<>> THEN << <<>> >>
    ELSE LET rest == Split(Tail(s), sep) IN
         IF Head(s) = sep THEN << <<>> >> \o rest
         ELSE << <<Head(s)>> \o Head(rest) >> \o Tail(rest)

IsErr(r) == r \in {"err_local", "err_check", "err_remote", "err_timeout"}
Running == op # "none" /\ result = "none"

\* The handler receives response r at call site `site`.
Record(site, r) ==
    /\ obs' = (site :> r) @@ obs
    /\ calls' = IF Called(site) THEN calls ELSE Append(calls, site)

Goto(p) == pc' = p /\ result' = "none" /\ attempts' = 0
\* The handler returns v; attempts keeps the polls the last loop had made before.
Finish(v) == pc' = "done" /\ result' = v /\ attempts' = attempts

\* resource.Retry(timeout, f) after f classified its call as cls: nil ends the loop
\* ("done", handled by the caller), a NonRetryableError is returned at once, a
\* RetryableError is polled again until the timeout elapses.
Retry(cls, why) ==
    CASE cls = "fail" -> Finish(why)
      [] cls = "retry" ->
            \/ /\ attempts + 1 < MaxPolls
               /\ attempts' = attempts + 1
               /\ pc' = pc /\ result' = "none"
            \/ Finish("err_timeout")

\* A handler is entered.
Enter(name, c, p) ==
    /\ op = "none"
    /\ op' = name /\ cfg' = c /\ pc' = p
    /\ attempts' = 0 /\ calls' = <<>> /\ obs' = <<>> /\ partial' = {}
    /\ result' = "none"

\* The handler has returned; Terraform core takes over, and forgets a resource
\* whose Delete succeeded.
Return ==
    /\ op # "none" /\ result # "none"
    /\ op' = "none" /\ pc' = "idle" /\ result' = "none" /\ cfg' = <<>>
    /\ attempts' = 0 /\ calls' = <<>> /\ obs' = <<>> /\ partial' = {}
    /\ id' = IF op \in {"VpnDelete", "CbsDelete", "RouteDelete", "RedisDelete"}
                /\ result = "ok"
             THEN <<>> ELSE id
    /\ UNCHANGED <<res, remote>>

----------------------------------------------------------------------------
(* VPN gateway: src/tencentcloud/resource_tc_vpn_gateway.go *)

VPN_CHARGE_TYPE_PREPAID == "PREPAID"
VPN_CHARGE_TYPE_POSTPAID_BY_HOUR == "POSTPAID_BY_HOUR"
VPN_STATE_AVAILABLE == "AVAILABLE"
VpnChargeTypes == {VPN_CHARGE_TYPE_PREPAID, VPN_CHARGE_TYPE_POSTPAID_BY_HOUR}
\* ExpiredTime of a gateway: "nil" unset, "zero" the text 0000-00-00 00:00:00,
\* "bad" a text time.Parse rejects, "future"/"past" a time after/before now.
VpnExpiry == {"nil", "zero", "bad", "future", "past"}
VpnGatewayId == <<"vpngw-1">>

VpnAbsent == [st |-> "ABSENT", charge |-> VPN_CHARGE_TYPE_POSTPAID_BY_HOUR,
              exp |-> "nil", tunnels |-> FALSE]
\* A prepaid gateway carries an expired time; a postpaid one none or the zero text.
VpnExpiryOf(charge) ==
    IF charge = VPN_CHARGE_TYPE_PREPAID THEN {"bad", "future", "past"} ELSE {"nil", "zero"}
VpnRemotes ==
    {VpnAbsent} \cup
    {g \in [st : {"PENDING", VPN_STATE_AVAILABLE, "DELETING"}, charge : VpnChargeTypes,
            exp : VpnExpiry, tunnels : BOOLEAN] : g.exp \in VpnExpiryOf(g.charge)}

\* Responses DescribeVpnGateways can give for the gateway id while the remote is g.
DescribeVpnGateways(g) ==
    [err : Errs \ {VPCNotFound}, n : {0}, st : {"-"}, charge : {"-"}, exp : {"-"}]
    \cup (IF g.st = "ABSENT"
          THEN {[err |-> VPCNotFound, n |-> 0, st |-> "-", charge |-> "-", exp |-> "-"],
                [err |-> "nil", n |-> 0, st |-> "-", charge |-> "-", exp |-> "-"]}
          ELSE {[err |-> "nil", n |-> 1, st |-> g.st, charge |-> g.charge, exp |-> g.exp]})

\* Responses of a call that returns only an error or nil.
Plain == [err : Errs \cup {"nil"}]

\* The control plane finishes what it was doing; a prepaid period runs out.
VpnRemoteStep ==
    /\ res = "vpn"
    /\ \/ remote.st = "PENDING" /\ remote' = [remote EXCEPT !.st = VPN_STATE_AVAILABLE]
       \/ remote.st = "PENDING" /\ remote' = VpnAbsent
       \/ remote.st = "DELETING" /\ remote' = VpnAbsent
       \/ remote.st # "ABSENT" /\ remote.exp = "future"
            /\ remote' = [remote EXCEPT !.exp = "past"]
    /\ UNCHANGED <<res, id, op, cfg, pc, attempts, calls, obs, partial, result>>

VpnCreateConfigs == [charge_type : VpnChargeTypes, tags : BOOLEAN]

resourceTencentCloudVpnGatewayCreate_Enter ==
    /\ res = "vpn" /\ id = <<>> /\ remote.st = "ABSENT"
    /\ \E c \in VpnCreateConfigs : Enter("VpnCreate", c, "Create.CreateVpnGateway")
    /\ UNCHANGED <<res, remote, id>>

\* CreateVpnGateway: an error, a response without a gateway, or the new gateway.
resourceTencentCloudVpnGatewayCreate_CreateVpnGateway ==
    /\ Running /\ op = "VpnCreate" /\ pc = "Create.CreateVpnGateway"
    /\ \E r \in [err : Errs \ {VPCNotFound}, gw : {FALSE}] \cup [err : {"nil"}, gw : BOOLEAN] :
        /\ Record(pc, r)
        /\ IF r.err # "nil"
           THEN Retry(retryError(r.err, {}), "err_remote") /\ UNCHANGED <<remote, id>>
           ELSE IF ~r.gw
           THEN Finish("err_check") /\ UNCHANGED <<remote, id>>
           ELSE /\ \E e \in VpnExpiryOf(cfg.charge_type) \ {"past"} :
                    remote' = [st |-> "PENDING", charge |-> cfg.charge_type,
                               exp |-> e, tunnels |-> FALSE]
                /\ id' = VpnGatewayId
                /\ Goto("Create.DescribeVpnGateways")
    /\ UNCHANGED <<res, op, cfg, partial>>

\* Mutant: the wait ends on one gateway in any state.
VpnCreateWaitClass_AnyState(r) ==
    IF r.err # "nil" THEN retryError(r.err, {})
    ELSE IF r.n # 1 THEN "fail"
    ELSE "done"

\* The wait loop's classification of one DescribeVpnGateways response.
VpnCreateWaitClass(r) ==
    IF r.err # "nil" THEN retryError(r.err, {})
    ELSE IF r.n # 1 THEN "fail"
    ELSE IF r.st = VPN_STATE_AVAILABLE THEN "done"
    ELSE "retry"

resourceTencentCloudVpnGatewayCreate_Wait ==
    /\ Running /\ op = "VpnCreate" /\ pc = "Create.DescribeVpnGateways"
    /\ \E r \in DescribeVpnGateways(remote) :
        /\ Record(pc, r)
        /\ LET cls == VpnCreateWaitClass(r) IN
           IF cls = "done"
           THEN Goto(IF cfg.tags THEN "Create.ModifyTags" ELSE "Read.DescribeVpnGateways")
           ELSE Retry(cls, IF r.err # "nil" THEN "err_remote" ELSE "err_check")
    /\ UNCHANGED <<res, remote, id, op, cfg, partial>>

resourceTencentCloudVpnGatewayCreate_ModifyTags ==
    /\ Running /\ op = "VpnCreate" /\ pc = "Create.ModifyTags"
    /\ \E r \in Plain :
        /\ Record(pc, r)
        /\ IF r.err # "nil" THEN Finish("err_remote") ELSE Goto("Read.DescribeVpnGateways")
    /\ UNCHANGED <<res, remote, id, op, cfg, partial>>

resourceTencentCloudVpnGatewayRead_Enter ==
    /\ res = "vpn" /\ id # <<>>
    /\ Enter("VpnRead", <<>>, "Read.DescribeVpnGateways")
    /\ UNCHANGED <<res, remote, id>>

\* The read loop's classification: the not-found code ends the loop with nil and
\* leaves `response` nil.
VpnReadClass(r) ==
    IF r.err = "nil" THEN "done"
    ELSE IF ~IsSdkError(r.err) THEN retryError(r.err, {})
    ELSE IF r.err = VPCNotFound THEN "done"
    ELSE retryError(r.err, {})

\* After the loop: `response` is nil when the loop ended on the not-found code, and
\* response.Response is then a nil pointer dereference.
VpnReadAfterLoop(r) ==
    IF r.err # "nil" THEN Finish("panic") /\ id' = id
    ELSE IF r.n < 1 THEN Finish("ok") /\ id' = <<>>
    ELSE Goto("Read.DescribeResourceTags") /\ id' = id

resourceTencentCloudVpnGatewayRead_Describe ==
    /\ Running /\ op \in {"VpnRead", "VpnCreate", "VpnUpdate"} /\ pc = "Read.DescribeVpnGateways"
    /\ \E r \in DescribeVpnGateways(remote) :
        /\ Record(pc, r)
        /\ LET cls == VpnReadClass(r) IN
           IF cls = "done" THEN VpnReadAfterLoop(r)
           ELSE Retry(cls, "err_remote") /\ id' = id
    /\ UNCHANGED <<res, remote, op, cfg, partial>>

resourceTencentCloudVpnGatewayRead_Tags ==
    /\ Running /\ op \in {"VpnRead", "VpnCreate", "VpnUpdate"} /\ pc = "Read.DescribeResourceTags"
    /\ \E r \in Plain :
        /\ Record(pc, r)
        /\ IF r.err # "nil" THEN Finish("err_remote") ELSE Finish("ok")
    /\ UNCHANGED <<res, remote, id, op, cfg, partial>>

resourceTencentCloudVpnGatewayDelete_Enter ==
    /\ res = "vpn" /\ id # <<>>
    /\ Enter("VpnDelete", <<>>, "Delete.DescribeCharge")
    /\ UNCHANGED <<res, remote, id>>

\* Mutant: the charge check lets a prepaid gateway that has not expired through.
VpnDeleteChargeClass_NoExpiryCheck(r) ==
    IF r.err # "nil" THEN retryError(r.err, {})
    ELSE IF r.n = 0 THEN "done"
    ELSE IF r.exp # "nil" /\ r.charge = VPN_CHARGE_TYPE_PREPAID /\ r.exp = "bad" THEN "fail"
    ELSE "done"

\* The charge check's classification of one DescribeVpnGateways response:
\* time.Parse fails on a malformed text, time.Until(t) > 0 for a time to come.
VpnDeleteChargeClass(r) ==
    IF r.err # "nil" THEN retryError(r.err, {})
    ELSE IF r.n = 0 THEN "done"
    ELSE IF r.exp # "nil" /\ r.charge = VPN_CHARGE_TYPE_PREPAID
    THEN IF r.exp # "zero"
         THEN IF r.exp = "bad" THEN "fail"
              ELSE IF r.exp = "future" THEN "fail"
              ELSE "done"
         ELSE "done"
    ELSE "done"

resourceTencentCloudVpnGatewayDelete_DescribeCharge ==
    /\ Running /\ op = "VpnDelete" /\ pc = "Delete.DescribeCharge"
    /\ \E r \in DescribeVpnGateways(remote) :
        /\ Record(pc, r)
        /\ LET cls == VpnDeleteChargeClass(r) IN
           IF cls = "done" THEN Goto("Delete.DescribeVpnConnections")
           ELSE Retry(cls, IF r.err # "nil" THEN "err_remote" ELSE "err_check")
    /\ UNCHANGED <<res, remote, id, op, cfg, partial>>

\* DescribeVpnConnections filtered by the gateway: n connections use it.
DescribeVpnConnections(g) ==
    [err : Errs \ {VPCNotFound}, n : {0}]
    \cup {[err |-> "nil", n |-> IF g.st # "ABSENT" /\ g.tunnels THEN 1 ELSE 0]}

VpnDeleteTunnelClass(r) ==
    IF r.err # "nil" THEN retryError(r.err, {})
    ELSE IF r.n = 0 THEN "done"
    ELSE "fail"

resourceTencentCloudVpnGatewayDelete_DescribeVpnConnections ==
    /\ Running /\ op = "VpnDelete" /\ pc = "Delete.DescribeVpnConnections"
    /\ \E r \in DescribeVpnConnections(remote) :
        /\ Record(pc, r)
        /\ LET cls == VpnDeleteTunnelClass(r) IN
           IF cls = "done" THEN Goto("Delete.DeleteVpnGateway")
           ELSE Retry(cls, IF r.err # "nil" THEN "err_remote" ELSE "err_check")
    /\ UNCHANGED <<res, remote, id, op, cfg, partial>>

\* DeleteVpnGateway: accepted only for a gateway that exists and is not being deleted.
DeleteVpnGateway(g) ==
    [err : Errs \ {VPCNotFound}]
    \cup (IF g.st \in {"ABSENT", "DELETING"} THEN {[err |-> VPCNotFound]} ELSE {[err |-> "nil"]})

resourceTencentCloudVpnGatewayDelete_DeleteVpnGateway ==
    /\ Running /\ op = "VpnDelete" /\ pc = "Delete.DeleteVpnGateway"
    /\ \E r \in DeleteVpnGateway(remote) :
        /\ Record(pc, r)
        /\ IF r.err # "nil"
           THEN Retry(retryError(r.err, {}), "err_remote") /\ remote' = remote
           ELSE Goto("Delete.DescribeVpnGateways")
                /\ remote' = [remote EXCEPT !.st = "DELETING"]
    /\ UNCHANGED <<res, id, op, cfg, partial>>

\* Mutant: a successful describe ends the wait whether or not the gateway is listed.
VpnDeleteGoneClass_NoPoll(r) ==
    IF r.err # "nil"
    THEN IF r.err = VPCNotFound THEN "done" ELSE retryError(r.err, {})
    ELSE "done"

\* The loop after the delete request: gone on the not-found code or an empty set.
VpnDeleteGoneClass(r) ==
    IF r.err # "nil"
    THEN IF ~IsSdkError(r.err) THEN retryError(r.err, {})
         ELSE IF r.err = VPCNotFound THEN "done"
         ELSE retryError(r.err, {})
    ELSE IF r.n = 0 THEN "done"
    ELSE "retry"

resourceTencentCloudVpnGatewayDelete_Gone ==
    /\ Running /\ op = "VpnDelete" /\ pc = "Delete.DescribeVpnGateways"
    /\ \E r \in DescribeVpnGateways(remote) :
        /\ Record(pc, r)
        /\ LET cls == VpnDeleteGoneClass(r) IN
           IF cls = "done" THEN Finish("ok")
           ELSE Retry(cls, "err_remote")
    /\ UNCHANGED <<res, remote, id, op, cfg, partial>>

\* charge_type has no ValidateFunc: the configuration may hold any string, the
\* state holds what Read took from the gateway.
VpnConfigChargeTypes == VpnChargeTypes \cup {"POSTPAID"}
VpnRenewKeys == {"prepaid_period", "prepaid_renew_flag"}
\* The diff of an Update: keys whose value changed, charge_type before and after.
VpnUpdateConfigs ==
    [changed : SUBSET (VpnRenewKeys \cup {"name", "bandwidth", "tags"}),
     old : VpnChargeTypes, new : VpnConfigChargeTypes]

\* d.HasChange(key)
VpnHasChange(c, key) ==
    IF key = "charge_type" THEN c.old # c.new ELSE key \in c.changed

\* request.InstanceChargeType of ModifyVpnGatewayAttribute: "nil" when left unset.
VpnRequestChargeType(c) ==
    IF c.old = VPN_CHARGE_TYPE_PREPAID /\ c.new = VPN_CHARGE_TYPE_POSTPAID_BY_HOUR
    THEN c.new ELSE "nil"

\* The charge type change Update refuses.
VpnChargeChangeRefused(c) ==
    IF c.old = VPN_CHARGE_TYPE_PREPAID /\ c.new = VPN_CHARGE_TYPE_POSTPAID_BY_HOUR
    THEN FALSE
    ELSE c.old = VPN_CHARGE_TYPE_POSTPAID_BY_HOUR /\ c.new = VPN_CHARGE_TYPE_PREPAID

\* Where Update goes after the step for `key`, in the order of the code.
VpnUpdateAfter(c, key) ==
    IF key \in {"renew"} /\ (VpnHasChange(c, "name") \/ VpnHasChange(c, "charge_type"))
    THEN "Update.ModifyVpnGatewayAttribute"
    ELSE IF key \in {"renew", "attribute"} /\ VpnHasChange(c, "bandwidth")
    THEN "Update.ResetVpnGatewayInternetMaxBandwidth"
    ELSE IF key \in {"renew", "attribute", "bandwidth"} /\ VpnHasChange(c, "tags")
    THEN "Update.ModifyTags"
    ELSE "Read.DescribeVpnGateways"

\* Mutant: the renew check is missing.
VpnRenewRefused_Never(c) == FALSE

\* The renew check at the head of Update.
VpnRenewRefused(c) ==
    VpnHasChange(c, "prepaid_period") \/ VpnHasChange(c, "prepaid_renew_flag")

resourceTencentCloudVpnGatewayUpdate_Enter ==
    /\ res = "vpn" /\ id # <<>> /\ op = "none"
    /\ \E c \in VpnUpdateConfigs :
        /\ op' = "VpnUpdate" /\ cfg' = c
        /\ calls' = <<>> /\ obs' = <<>> /\ partial' = {}
        /\ IF VpnRenewRefused(c) THEN Finish("err_local")
           ELSE IF (VpnHasChange(c, "name") \/ VpnHasChange(c, "charge_type"))
                   /\ VpnChargeChangeRefused(c)
           THEN Finish("err_local")
           ELSE Goto(VpnUpdateAfter(c, "renew"))
    /\ UNCHANGED <<res, remote, id>>

\* Responses of a request that changes the gateway while the remote is g.
VpnModify(g) ==
    [err : Errs \ {VPCNotFound}]
    \cup (IF g.st = "ABSENT" THEN {[err |-> VPCNotFound]} ELSE {[err |-> "nil"]})

\* The request carries the name and, for prepaid to postpaid, the charge type; the
\* response is kept together with the charge type the request carried.
resourceTencentCloudVpnGatewayUpdate_ModifyVpnGatewayAttribute ==
    /\ Running /\ op = "VpnUpdate" /\ pc = "Update.ModifyVpnGatewayAttribute"
    /\ \E r \in VpnModify(remote) :
        /\ Record(pc, [err |-> r.err, InstanceChargeType |-> VpnRequestChargeType(cfg)])
        /\ IF r.err # "nil"
           THEN Retry(retryError(r.err, {}), "err_remote") /\ UNCHANGED <<remote, partial>>
           ELSE /\ Goto(VpnUpdateAfter(cfg, "attribute"))
                /\ partial' = partial
                              \cup {k \in {"name", "charge_type"} : VpnHasChange(cfg, k)}
                /\ IF VpnRequestChargeType(cfg) = "nil" THEN remote' = remote
                   ELSE \E e \in VpnExpiryOf(VPN_CHARGE_TYPE_POSTPAID_BY_HOUR) :
                            remote' = [remote EXCEPT
                                          !.charge = VPN_CHARGE_TYPE_POSTPAID_BY_HOUR,
                                          !.exp = e]
    /\ UNCHANGED <<res, id, op, cfg>>

resourceTencentCloudVpnGatewayUpdate_ResetBandwidth ==
    /\ Running /\ op = "VpnUpdate" /\ pc = "Update.ResetVpnGatewayInternetMaxBandwidth"
    /\ \E r \in VpnModify(remote) :
        /\ Record(pc, r)
        /\ IF r.err # "nil"
           THEN Retry(retryError(r.err, {}), "err_remote") /\ partial' = partial
           ELSE Goto(VpnUpdateAfter(cfg, "bandwidth"))
                /\ partial' = partial \cup {"bandwidth"}
    /\ UNCHANGED <<res, remote, id, op, cfg>>

resourceTencentCloudVpnGatewayUpdate_ModifyTags ==
    /\ Running /\ op = "VpnUpdate" /\ pc = "Update.ModifyTags"
    /\ \E r \in Plain :
        /\ Record(pc, r)
        /\ IF r.err # "nil" THEN Finish("err_remote") /\ partial' = partial
           ELSE Goto("Read.DescribeVpnGateways") /\ partial' = partial \cup {"tags"}
    /\ UNCHANGED <<res, remote, id, op, cfg>>

----------------------------------------------------------------------------
(* CBS storage: src/unnamed/part_006 *)

CBS_STORAGE_STATUS_EXPANDING == "EXPANDING"
CBS_STORAGE_STATUS_ROLLBACKING == "ROLLBACKING"
CbsStorageId == <<"disk-1">>
CbsStates == {"UNATTACHED", CBS_STORAGE_STATUS_EXPANDING, CBS_STORAGE_STATUS_ROLLBACKING}
CbsAbsent == [st |-> "ABSENT", size |-> 1]
CbsRemotes == {CbsAbsent} \cup [st : CbsStates, size : 1..MaxSize]

\* CbsService.DescribeDiskById: (disk, err), disk nil when no disk has the id.
DescribeDiskById(g) ==
    [err : Errs \ {VPCNotFound}, disk : {FALSE}, st : {"-"}]
    \cup {[err |-> "nil", disk |-> g.st # "ABSENT", st |-> IF g.st = "ABSENT" THEN "-" ELSE g.st]}

\* A request about the disk: refused with an error code when the disk is absent.
CbsRequest(g) ==
    [err : Errs \ {VPCNotFound}]
    \cup (IF g.st = "ABSENT" THEN {[err |-> VPCNotFound]} ELSE {[err |-> "nil"]})

CbsRemoteStep ==
    /\ res = "cbs"
    /\ \/ remote.st \in {CBS_STORAGE_STATUS_EXPANDING, CBS_STORAGE_STATUS_ROLLBACKING}
            /\ remote' = [remote EXCEPT !.st = "UNATTACHED"]
       \/ remote.st = "UNATTACHED" /\ remote' = CbsAbsent
    /\ UNCHANGED <<res, id, op, cfg, pc, attempts, calls, obs, partial, result>>

CbsFields == {"storage_name", "project_id", "storage_size", "snapshot_id", "tags"}
\* The diff of an Update: the changed keys, and storage_size before and after
\* (they differ exactly when storage_size is among the changed keys).
CbsUpdateConfigs ==
    {c \in [changed : SUBSET CbsFields, old : 1..MaxSize, new : 1..MaxSize] :
        /\ c.changed # {}
        /\ ("storage_size" \in c.changed) <=> (c.old # c.new)}

\* The next block of Update, from block number k on, for the diff c: the block of
\* storage_size refuses a smaller size before any request of its own.
CbsUpdateFrom(c, k) ==
    IF k <= 1 /\ ("storage_name" \in c.changed \/ "project_id" \in c.changed)
        THEN Goto("Update.ModifyDiskAttributes")
    ELSE IF k <= 2 /\ "storage_size" \in c.changed
        THEN IF c.old > c.new THEN Finish("err_local") ELSE Goto("Update.ResizeDisk")
    ELSE IF k <= 3 /\ "snapshot_id" \in c.changed THEN Goto("Update.ApplySnapshot")
    ELSE IF k <= 4 /\ "tags" \in c.changed THEN Goto("Update.ModifyTags")
    ELSE Finish("ok")

resourceTencentCloudCbsStorageUpdate_Enter ==
    /\ res = "cbs" /\ id # <<>> /\ op = "none"
    /\ \E c \in CbsUpdateConfigs :
        /\ op' = "CbsUpdate" /\ cfg' = c
        /\ calls' = <<>> /\ obs' = <<>> /\ partial' = {}
        /\ CbsUpdateFrom(c, 1)
    /\ UNCHANGED <<res, remote, id>>

resourceTencentCloudCbsStorageUpdate_ModifyDiskAttributes ==
    /\ Running /\ op = "CbsUpdate" /\ pc = "Update.ModifyDiskAttributes"
    /\ \E r \in CbsRequest(remote) :
        /\ Record(pc, r)
        /\ IF r.err # "nil"
           THEN Retry(retryError(r.err, {}), "err_remote") /\ partial' = partial
           ELSE /\ partial' = partial \cup (cfg.changed \cap {"storage_name", "project_id"})
                /\ CbsUpdateFrom(cfg, 2)
    /\ UNCHANGED <<res, remote, id, op, cfg>>

resourceTencentCloudCbsStorageUpdate_ResizeDisk ==
    /\ Running /\ op = "CbsUpdate" /\ pc = "Update.ResizeDisk"
    /\ \E r \in CbsRequest(remote) :
        /\ Record(pc, r)
        /\ IF r.err # "nil"
           THEN Retry(retryError(r.err, {}), "err_remote") /\ remote' = remote
           ELSE /\ remote' = [st |-> CBS_STORAGE_STATUS_EXPANDING, size |-> cfg.new]
                /\ Goto("Update.ResizeWait")
    /\ UNCHANGED <<res, id, op, cfg, partial>>

\* Mutant: the wait ends on any successful describe.
CbsResizeWaitClass_NoWait(r) ==
    IF r.err # "nil" THEN retryError(r.err, {}) ELSE "done"

\* The wait after ResizeDisk: polled again only for a disk reported EXPANDING.
CbsResizeWaitClass(r) ==
    IF r.err # "nil" THEN retryError(r.err, {})
    ELSE IF r.disk /\ r.st = CBS_STORAGE_STATUS_EXPANDING THEN "retry"
    ELSE "done"

resourceTencentCloudCbsStorageUpdate_ResizeWait ==
    /\ Running /\ op = "CbsUpdate" /\ pc = "Update.ResizeWait"
    /\ \E r \in DescribeDiskById(remote) :
        /\ Record(pc, r)
        /\ LET cls == CbsResizeWaitClass(r) IN
           IF cls = "done"
           THEN partial' = partial \cup {"storage_size"} /\ CbsUpdateFrom(cfg, 3)
           ELSE Retry(cls, "err_remote") /\ partial' = partial
    /\ UNCHANGED <<res, remote, id, op, cfg>>

resourceTencentCloudCbsStorageUpdate_ApplySnapshot ==
    /\ Running /\ op = "CbsUpdate" /\ pc = "Update.ApplySnapshot"
    /\ \E r \in CbsRequest(remote) :
        /\ Record(pc, r)
        /\ IF r.err # "nil"
           THEN Retry(retryError(r.err, {}), "err_remote") /\ remote' = remote
           ELSE /\ remote' = [remote EXCEPT !.st = CBS_STORAGE_STATUS_ROLLBACKING]
                /\ Goto("Update.SnapshotWait")
    /\ UNCHANGED <<res, id, op, cfg, partial>>

CbsSnapshotWaitClass(r) ==
    IF r.err # "nil" THEN retryError(r.err, {})
    ELSE IF r.disk /\ r.st = CBS_STORAGE_STATUS_ROLLBACKING THEN "retry"
    ELSE "done"

resourceTencentCloudCbsStorageUpdate_SnapshotWait ==
    /\ Running /\ op = "CbsUpdate" /\ pc = "Update.SnapshotWait"
    /\ \E r \in DescribeDiskById(remote) :
        /\ Record(pc, r)
        /\ LET cls == CbsSnapshotWaitClass(r) IN
           IF cls = "done"
           THEN partial' = partial \cup {"snapshot_id"} /\ CbsUpdateFrom(cfg, 4)
           ELSE Retry(cls, "err_remote") /\ partial' = partial
    /\ UNCHANGED <<res, remote, id, op, cfg>>

resourceTencentCloudCbsStorageUpdate_ModifyTags ==
    /\ Running /\ op = "CbsUpdate" /\ pc = "Update.ModifyTags"
    /\ \E r \in Plain :
        /\ Record(pc, r)
        /\ IF r.err # "nil"
           THEN Finish("err_remote") /\ partial' = partial
           ELSE partial' = partial \cup {"tags"} /\ Finish("ok")
    /\ UNCHANGED <<res, remote, id, op, cfg>>

resourceTencentCloudCbsStorageDelete_Enter ==
    /\ res = "cbs" /\ id # <<>>
    /\ Enter("CbsDelete", <<>>, "Delete.DeleteDiskById")
    /\ UNCHANGED <<res, remote, id>>

\* Delete is one retried DeleteDiskById and nothing after it.
resourceTencentCloudCbsStorageDelete_DeleteDiskById ==
    /\ Running /\ op = "CbsDelete" /\ pc = "Delete.DeleteDiskById"
    /\ \E r \in CbsRequest(remote) :
        /\ Record(pc, r)
        /\ IF r.err # "nil"
           THEN Retry(retryError(r.err, {InternalError}), "err_remote") /\ remote' = remote
           ELSE /\ \/ remote' = CbsAbsent
                   \/ remote' = remote
                /\ Finish("ok")
    /\ UNCHANGED <<res, id, op, cfg, partial>>

----------------------------------------------------------------------------
(* Route table entry: src/tencentcloud/resource_tc_route_table_entry.go *)

GATE_WAY_TYPE_EIP == "EIP"
\* The entry id CreateRoutes returns, printed with %d.
RouteEntryId == <<"7">>
Digits == {"0", "1", "2", "3", "4", "5", "6", "7", "8", "9"}
RouteAbsent == [entry |-> FALSE]
RoutePresent == [entry |-> TRUE]

\* Configurations that pass the schema: next_type is one of the allowed types,
\* the required strings may be empty (d.GetOk then leaves the local empty).
RouteCreateConfigs ==
    [route_table_id : {<<>>, <<"rtb-1">>}, destination_cidr_block : {<<"10.0.0.0/8">>},
     next_type : {GATE_WAY_TYPE_EIP, "CVM"}, next_hub : {<<>>, <<"0">>, <<"gw-1">>}]

\* Mutant: the check of next_hub for next_type EIP is missing.
RouteCreateLocalCheck_NoEip(c) ==
    ~(c.route_table_id = <<>> \/ c.destination_cidr_block = <<>>
      \/ c.next_type = "" \/ c.next_hub = <<>>)

\* Mutant: next_type EIP is refused whatever next_hub is.
RouteCreateLocalCheck_EipRefused(c) ==
    IF c.route_table_id = <<>> \/ c.destination_cidr_block = <<>>
       \/ c.next_type = "" \/ c.next_hub = <<>>
    THEN FALSE
    ELSE IF c.next_type = GATE_WAY_TYPE_EIP THEN FALSE
    ELSE TRUE

\* The checks Create makes before CreateRoutes.
RouteCreateLocalCheck(c) ==
    IF c.route_table_id = <<>> \/ c.destination_cidr_block = <<>>
       \/ c.next_type = "" \/ c.next_hub = <<>>
    THEN FALSE
    ELSE IF c.next_type = GATE_WAY_TYPE_EIP /\ c.next_hub # <<"0">> THEN FALSE
    ELSE TRUE

resourceTencentCloudVpcRouteEntryCreate_Enter ==
    /\ res = "route" /\ id = <<>> /\ op = "none"
    /\ \E c \in RouteCreateConfigs :
        /\ op' = "RouteCreate" /\ cfg' = c
        /\ calls' = <<>> /\ obs' = <<>> /\ partial' = {}
        /\ IF RouteCreateLocalCheck(c) THEN Goto("Create.CreateRoutes")
           ELSE Finish("err_local")
    /\ UNCHANGED <<res, remote, id>>

\* service.CreateRoutes returns (entryId, err); the id is fmt.Sprintf("%d.%s", ...).
resourceTencentCloudVpcRouteEntryCreate_CreateRoutes ==
    /\ Running /\ op = "RouteCreate" /\ pc = "Create.CreateRoutes"
    /\ \E r \in Plain :
        /\ Record(pc, r)
        /\ IF r.err # "nil"
           THEN Finish("err_remote") /\ UNCHANGED <<remote, id>>
           ELSE /\ id' = RouteEntryId \o <<".">> \o cfg.route_table_id
                /\ remote' = RoutePresent
                /\ Finish("ok")
    /\ UNCHANGED <<res, op, cfg, partial>>

\* strconv.ParseUint(item, 10, 64) succeeds on a non-empty run of digits.
ParseUintOk(item) == item # <<>> /\ \A i \in DOMAIN item : item[i] \in Digits

resourceTencentCloudVpcRouteEntryDelete_Enter ==
    /\ res = "route" /\ id # <<>> /\ op = "none"
    /\ op' = "RouteDelete" /\ cfg' = <<>>
    /\ calls' = <<>> /\ obs' = <<>> /\ partial' = {}
    /\ LET items == Split(id, ".") IN
       IF Len(items) # 2 THEN Finish("err_local")
       ELSE IF ~ParseUintOk(items[1]) THEN Finish("err_local")
       ELSE Goto("Delete.DeleteRoutes")
    /\ UNCHANGED <<res, remote, id>>

\* service.DeleteRoutes: the not-found code when the entry is gone.
DeleteRoutes(g) ==
    [err : Errs \ {VPCNotFound}]
    \cup (IF g.entry THEN {[err |-> "nil"]} ELSE {[err |-> VPCNotFound]})

\* The delete loop's classification: nil on success and on the not-found code of
\* an SDK error, RetryableError for every other error.
RouteDeleteClass(r) ==
    IF r.err # "nil"
    THEN IF IsSdkError(r.err) /\ r.err = VPCNotFound THEN "done"
         ELSE "retry"
    ELSE "done"

resourceTencentCloudVpcRouteEntryDelete_DeleteRoutes ==
    /\ Running /\ op = "RouteDelete" /\ pc = "Delete.DeleteRoutes"
    /\ \E r \in DeleteRoutes(remote) :
        /\ Record(pc, r)
        /\ LET cls == RouteDeleteClass(r) IN
           IF cls = "done"
           THEN Finish("ok") /\ remote' = IF r.err = "nil" THEN RouteAbsent ELSE remote
           ELSE Retry(cls, "err_remote") /\ remote' = remote
    /\ UNCHANGED <<res, id, op, cfg, partial>>

\* The entry is removed behind Terraform's back.
RouteRemoteStep ==
    /\ res = "route" /\ remote.entry
    /\ remote' = RouteAbsent
    /\ UNCHANGED <<res, id, op, cfg, pc, attempts, calls, obs, partial, result>>

----------------------------------------------------------------------------
(* Kubernetes cluster attachment:
   src/tencentcloud/resource_tc_kubernetes_cluster_attachment.go *)

CVM_STATUS_RUNNING == "RUNNING"
TkeInstanceId == <<"ins-1">>
TkeClusterId == <<"cls-1">>
TkeAttachmentId == TkeInstanceId \o <<"_">> \o TkeClusterId
OtherInstanceId == <<"ins-2">>

\* cluster: the cluster exists; cvm: state of the CVM instance or "ABSENT";
\* worker: state of the instance as a worker of the cluster or "none";
\* others: the cluster has another worker.
TkeCvmStates == {"ABSENT", "PENDING", CVM_STATUS_RUNNING}
TkeWorkerStates == {"none", "initializing", "running", "failed"}
TkeRemotes ==
    {g \in [cluster : BOOLEAN, cvm : TkeCvmStates, worker : TkeWorkerStates, others : BOOLEAN] :
        ~g.cluster => (g.worker = "none" /\ ~g.others)}

\* The workers of the cluster as DescribeClusterInstances lists them.
TkeWorkers(g) ==
    (IF g.others THEN << [InstanceId |-> OtherInstanceId, InstanceState |-> "running"] >> ELSE <<>>)
    \o (IF g.worker # "none"
        THEN << [InstanceId |-> TkeInstanceId, InstanceState |-> g.worker] >> ELSE <<>>)

\* TkeService.DescribeCluster: (info, has, err).
DescribeCluster(g) ==
    [err : Errs \ {VPCNotFound}, has : {FALSE}] \cup {[err |-> "nil", has |-> g.cluster]}

\* CvmService.DescribeInstanceById: (instance, err), instance nil when absent.
DescribeInstanceById(g) ==
    [err : Errs \ {VPCNotFound}, instance : {FALSE}, st : {"-"}]
    \cup {[err |-> "nil", instance |-> g.cvm # "ABSENT",
           st |-> IF g.cvm = "ABSENT" THEN "-" ELSE g.cvm]}

\* TkeService.DescribeClusterInstances: (masters, workers, err).
DescribeClusterInstances(g) ==
    [err : Errs \ {VPCNotFound}, workers : {<<>>}]
    \cup (IF g.cluster THEN {[err |-> "nil", workers |-> TkeWorkers(g)]}
          ELSE {[err |-> VPCNotFound, workers |-> <<>>]})

\* The loop over the workers that looks for the instance.
HasWorker(workers, instanceId) ==
    \E i \in DOMAIN workers : workers[i].InstanceId = instanceId

TkeRemoteStep ==
    /\ res = "tke"
    /\ \/ remote.cvm = "PENDING" /\ remote' = [remote EXCEPT !.cvm = CVM_STATUS_RUNNING]
       \/ remote.worker = "initializing" /\ remote' = [remote EXCEPT !.worker = "running"]
       \/ remote.worker = "initializing" /\ remote' = [remote EXCEPT !.worker = "failed"]
       \/ remote.worker # "none" /\ remote' = [remote EXCEPT !.worker = "none"]
       \/ remote.cvm # "ABSENT" /\ remote' = [remote EXCEPT !.cvm = "ABSENT", !.worker = "none"]
       \/ remote.cluster
            /\ remote' = [remote EXCEPT !.cluster = FALSE, !.worker = "none", !.others = FALSE]
    /\ UNCHANGED <<res, id, op, cfg, pc, attempts, calls, obs, partial, result>>

(* Read *)

resourceTencentCloudTkeClusterAttachmentRead_Enter ==
    /\ res = "tke" /\ id # <<>> /\ op = "none"
    /\ op' = "TkeRead" /\ cfg' = <<>>
    /\ calls' = <<>> /\ obs' = <<>> /\ partial' = {}
    /\ IF Len(Split(id, "_")) # 2 THEN Finish("err_local")
       ELSE Goto("Read.DescribeCluster0")
    /\ UNCHANGED <<res, remote, id>>

\* What Read does once DescribeCluster is settled: with an error left it returns
\* nil, without the cluster it clears the id.
TkeReadAfterCluster(err, has) ==
    IF err THEN Finish("ok") /\ id' = id
    ELSE IF ~has THEN Finish("ok") /\ id' = <<>>
    ELSE Goto("Read.DescribeInstanceById") /\ id' = id

\* The first DescribeCluster, outside resource.Retry: any error enters the loop.
resourceTencentCloudTkeClusterAttachmentRead_DescribeCluster0 ==
    /\ Running /\ op \in {"TkeRead", "TkeCreate"} /\ pc = "Read.DescribeCluster0"
    /\ \E r \in DescribeCluster(remote) :
        /\ Record("Read.DescribeCluster", r)
        /\ IF r.err # "nil" THEN Goto("Read.DescribeCluster") /\ id' = id
           ELSE TkeReadAfterCluster(FALSE, r.has)
    /\ UNCHANGED <<res, remote, op, cfg, partial>>

\* Retry(cls, why) for a loop whose error the handler turns into `after`.
RetryThen(cls, after) ==
    CASE cls = "fail" -> after
      [] cls = "retry" ->
            \/ /\ attempts + 1 < MaxPolls
               /\ attempts' = attempts + 1
               /\ pc' = pc /\ result' = "none"
            \/ after

resourceTencentCloudTkeClusterAttachmentRead_DescribeCluster ==
    /\ Running /\ op \in {"TkeRead", "TkeCreate"} /\ pc = "Read.DescribeCluster"
    /\ \E r \in DescribeCluster(remote) :
        /\ Record("Read.DescribeCluster", r)
        /\ IF r.err = "nil" THEN TkeReadAfterCluster(FALSE, r.has)
           ELSE /\ id' = id
                /\ RetryThen(retryError(r.err, {InternalError}),
                             TkeReadAfterCluster(TRUE, FALSE))
    /\ UNCHANGED <<res, remote, op, cfg, partial>>

resourceTencentCloudTkeClusterAttachmentRead_DescribeInstanceById ==
    /\ Running /\ op \in {"TkeRead", "TkeCreate"} /\ pc = "Read.DescribeInstanceById"
    /\ \E r \in DescribeInstanceById(remote) :
        /\ Record(pc, r)
        /\ IF r.err # "nil"
           THEN Retry(retryError(r.err, {InternalError}), "err_remote") /\ id' = id
           ELSE IF ~r.instance THEN Finish("ok") /\ id' = <<>>
           ELSE Goto("Read.DescribeClusterInstances0") /\ id' = id
    /\ UNCHANGED <<res, remote, op, cfg, partial>>

\* Mutant: Read keeps the id whatever the workers are.
TkeReadAfterWorkers_KeepId(workers) == Finish("ok") /\ id' = id

\* The end of Read: the id is cleared when the instance is not among the workers.
TkeReadAfterWorkers(workers) ==
    IF ~HasWorker(workers, Split(id, "_")[1]) THEN Finish("ok") /\ id' = <<>>
    ELSE Finish("ok") /\ id' = id

resourceTencentCloudTkeClusterAttachmentRead_DescribeClusterInstances0 ==
    /\ Running /\ op \in {"TkeRead", "TkeCreate"} /\ pc = "Read.DescribeClusterInstances0"
    /\ \E r \in DescribeClusterInstances(remote) :
        /\ Record("Read.DescribeClusterInstances", r)
        /\ IF r.err # "nil" THEN Goto("Read.DescribeClusterInstances") /\ id' = id
           ELSE TkeReadAfterWorkers(r.workers)
    /\ UNCHANGED <<res, remote, op, cfg, partial>>

resourceTencentCloudTkeClusterAttachmentRead_DescribeClusterInstances ==
    /\ Running /\ op \in {"TkeRead", "TkeCreate"} /\ pc = "Read.DescribeClusterInstances"
    /\ \E r \in DescribeClusterInstances(remote) :
        /\ Record("Read.DescribeClusterInstances", r)
        /\ IF r.err = "nil" THEN TkeReadAfterWorkers(r.workers)
           ELSE Retry(retryError(r.err, {InternalError}), "err_remote") /\ id' = id
    /\ UNCHANGED <<res, remote, op, cfg, partial>>

(* Create *)

\* key_ids and password as d.GetOk sees them: set and non-empty, or not.
TkeCreateConfigs == [key_ids : BOOLEAN, password : BOOLEAN]

\* Mutant: only key_ids is counted.
loginSettingsNumbers_KeyOnly(c) ==
    IF c.key_ids THEN 1 ELSE 0

loginSettingsNumbers(c) ==
    (IF c.key_ids THEN 1 ELSE 0) + (IF c.password THEN 1 ELSE 0)

resourceTencentCloudTkeClusterAttachmentCreate_Enter ==
    /\ res = "tke" /\ id = <<>> /\ op = "none"
    /\ \E c \in TkeCreateConfigs :
        /\ op' = "TkeCreate" /\ cfg' = c
        /\ calls' = <<>> /\ obs' = <<>> /\ partial' = {}
        /\ IF loginSettingsNumbers(c) # 1 THEN Finish("err_local")
           ELSE Goto("Create.DescribeClusterInstances0")
    /\ UNCHANGED <<res, remote, id>>

\* After the list of workers is known: an instance already attached is refused.
TkeCreateAfterWorkers(workers) ==
    IF HasWorker(workers, TkeInstanceId) THEN Finish("err_check")
    ELSE Goto("Create.AddExistedInstances")

resourceTencentCloudTkeClusterAttachmentCreate_DescribeClusterInstances0 ==
    /\ Running /\ op = "TkeCreate" /\ pc = "Create.DescribeClusterInstances0"
    /\ \E r \in DescribeClusterInstances(remote) :
        /\ Record("Create.DescribeClusterInstances", r)
        /\ IF r.err # "nil" THEN Goto("Create.DescribeClusterInstances")
           ELSE TkeCreateAfterWorkers(r.workers)
    /\ UNCHANGED <<res, remote, id, op, cfg, partial>>

resourceTencentCloudTkeClusterAttachmentCreate_DescribeClusterInstances ==
    /\ Running /\ op = "TkeCreate" /\ pc = "Create.DescribeClusterInstances"
    /\ \E r \in DescribeClusterInstances(remote) :
        /\ Record("Create.DescribeClusterInstances", r)
        /\ IF r.err = "nil" THEN TkeCreateAfterWorkers(r.workers)
           ELSE Retry(retryError(r.err, {InternalError}), "err_remote")
    /\ UNCHANGED <<res, remote, id, op, cfg, partial>>

\* AddExistedInstances: an error, or the ids that were added (SuccInstanceIds).
AddExistedInstances(g) ==
    [err : Errs \ {VPCNotFound}, succ : {{}}]
    \cup (IF ~g.cluster THEN {[err |-> VPCNotFound, succ |-> {}]}
          ELSE IF g.cvm = "ABSENT" \/ g.worker # "none" THEN {[err |-> "nil", succ |-> {}]}
          ELSE {[err |-> "nil", succ |-> {TkeInstanceId}]})

resourceTencentCloudTkeClusterAttachmentCreate_AddExistedInstances ==
    /\ Running /\ op = "TkeCreate" /\ pc = "Create.AddExistedInstances"
    /\ \E r \in AddExistedInstances(remote) :
        /\ Record(pc, r)
        /\ IF r.err # "nil"
           THEN Retry(retryError(r.err, {InternalError}), "err_remote")
                /\ UNCHANGED <<remote, id>>
           ELSE IF TkeInstanceId \in r.succ
           THEN /\ id' = TkeInstanceId \o <<"_">> \o TkeClusterId
                /\ remote' = [remote EXCEPT !.cvm = "PENDING", !.worker = "initializing"]
                /\ Goto("Create.DescribeInstanceById")
           ELSE Finish("err_check") /\ UNCHANGED <<remote, id>>
    /\ UNCHANGED <<res, op, cfg, partial>>

\* The wait for the CVM: "panic" is the nil pointer dereference of
\* *instance.InstanceState when the instance is nil.
TkeCvmWaitClass(r) ==
    IF r.err # "nil" THEN retryError(r.err, {InternalError})
    ELSE IF r.instance /\ r.st = CVM_STATUS_RUNNING THEN "done"
    ELSE IF ~r.instance THEN "panic"
    ELSE "retry"

resourceTencentCloudTkeClusterAttachmentCreate_DescribeInstanceById ==
    /\ Running /\ op = "TkeCreate" /\ pc = "Create.DescribeInstanceById"
    /\ \E r \in DescribeInstanceById(remote) :
        /\ Record(pc, r)
        /\ LET cls == TkeCvmWaitClass(r) IN
           IF cls = "done" THEN Goto("Create.WaitClusterInstances")
           ELSE IF cls = "panic" THEN Finish("panic")
           ELSE Retry(cls, "err_remote")
    /\ UNCHANGED <<res, remote, id, op, cfg, partial>>

\* The loop over the workers in the wait for the cluster, from worker i on:
\* the first worker with the instance's id that is failed or not yet running
\* decides; otherwise the instance must have been seen.
RECURSIVE TkeWorkerScan(_, _, _)
TkeWorkerScan(workers, i, has) ==
    IF i > Len(workers) THEN (IF has THEN "done" ELSE "fail")
    ELSE IF workers[i].InstanceId = TkeInstanceId
    THEN IF workers[i].InstanceState = "failed" THEN "fail"
         ELSE IF workers[i].InstanceState # "running" THEN "retry"
         ELSE TkeWorkerScan(workers, i + 1, TRUE)
    ELSE TkeWorkerScan(workers, i + 1, has)

\* Mutant: the wait ends as soon as the instance is listed, in whatever state.
TkeWaitClass_AnyListed(r) ==
    IF r.err # "nil" THEN retryError(r.err, {InternalError})
    ELSE IF HasWorker(r.workers, TkeInstanceId) THEN "done"
    ELSE "fail"

TkeWaitClass(r) ==
    IF r.err # "nil" THEN retryError(r.err, {InternalError})
    ELSE TkeWorkerScan(r.workers, 1, FALSE)

resourceTencentCloudTkeClusterAttachmentCreate_WaitClusterInstances ==
    /\ Running /\ op = "TkeCreate" /\ pc = "Create.WaitClusterInstances"
    /\ \E r \in DescribeClusterInstances(remote) :
        /\ Record(pc, r)
        /\ LET cls == TkeWaitClass(r) IN
           IF cls = "done"
           THEN IF Len(Split(id, "_")) # 2 THEN Finish("err_local")
                ELSE Goto("Read.DescribeCluster0")
           ELSE Retry(cls, IF r.err # "nil" THEN "err_remote" ELSE "err_check")
    /\ UNCHANGED <<res, remote, id, op, cfg, partial>>

----------------------------------------------------------------------------
(* Redis instance: src/unnamed/part_008, src/tencentcloud/service_tencentcloud_redis.go *)

REDIS_STATUS_INIT == "init"
REDIS_STATUS_PROCESSING == "processing"
REDIS_STATUS_ONLINE == "online"
REDIS_STATUS_ISOLATE == "isolate"
REDIS_STATUS_TODELETE == "todelete"
\* The statuses the map REDIS_STATUS gives a name to.
REDIS_STATUS ==
    {REDIS_STATUS_INIT, REDIS_STATUS_PROCESSING, REDIS_STATUS_ONLINE,
     REDIS_STATUS_ISOLATE, REDIS_STATUS_TODELETE}
REDIS_TASK_PREPARING == "preparing"
REDIS_TASK_RUNNING == "running"
REDIS_TASK_SUCCEED == "succeed"
\* Statuses of a task; "failed" is one the provider gives no constant to.
RedisTaskStatuses ==
    {REDIS_TASK_PREPARING, REDIS_TASK_RUNNING, REDIS_TASK_SUCCEED, "failed"}

\* The instance id; CreateInstances and UpgradeInstance return it as the deal id.
RedisId == <<"crs-1">>
\* Largest mem_size of the model.
MaxMem == 2

\* st: "ABSENT", a status of REDIS_STATUS or "unknown" (a status without a name);
\* vpc: the instance is in a VPC; task: status of the task last started, or "none".
RedisAbsent == [st |-> "ABSENT", vpc |-> FALSE, task |-> "none"]
RedisRemotes ==
    {RedisAbsent} \cup [st : REDIS_STATUS \cup {"unknown"}, vpc : BOOLEAN, task : {"none"}]

\* The control plane delivers an instance and runs a task; the task of
\* CleanUpInstance removes the instance when it succeeds.
RedisRemoteStep ==
    /\ res = "redis"
    /\ \/ remote.st = REDIS_STATUS_INIT
            /\ remote' = [remote EXCEPT !.st = REDIS_STATUS_PROCESSING]
       \/ remote.st = REDIS_STATUS_PROCESSING
            /\ remote' = [remote EXCEPT !.st = REDIS_STATUS_ONLINE]
       \/ remote.task = REDIS_TASK_PREPARING
            /\ remote' = [remote EXCEPT !.task = REDIS_TASK_RUNNING]
       \/ remote.task = REDIS_TASK_RUNNING
            /\ remote' = [remote EXCEPT !.task = "failed"]
       \/ remote.task = REDIS_TASK_RUNNING
            /\ remote' = [remote EXCEPT
                             !.task = REDIS_TASK_SUCCEED,
                             !.st = IF @ = REDIS_STATUS_TODELETE THEN "ABSENT" ELSE @]
    /\ UNCHANGED <<res, id, op, cfg, pc, attempts, calls, obs, partial, result>>

\* Responses of DescribeInstances filtered by InstanceId = target while the remote
\* is g: n instances, st the status of the first. An empty target is no filter the
\* provider controls: the answer is then whatever the account holds.
RedisDescribeInstances(g, target) ==
    [err : Errs, n : {0}, st : {"-"}]
    \cup (IF target = <<>>
          THEN [err : {"nil"}, n : {0}, st : {"-"}]
               \cup [err : {"nil"}, n : {1}, st : REDIS_STATUS]
               \cup [err : {"nil"}, n : {2}, st : {"-"}]
          ELSE IF g.st = "ABSENT" THEN {[err |-> "nil", n |-> 0, st |-> "-"]}
          ELSE {[err |-> "nil", n |-> 1, st |-> g.st]})

\* CheckRedisCreateOk on the last DescribeInstances response r it received (it
\* repeats the call up to three times on a transport error): info is the status of
\* the instance or "nil"; "fmt" is an error the provider made with fmt.Errorf.
CheckRedisCreateOk(r) ==
    IF r.err # "nil"
    THEN [has |-> FALSE, online |-> FALSE, info |-> "nil", err |-> r.err]
    ELSE IF r.n = 0
    THEN [has |-> FALSE, online |-> FALSE, info |-> "nil", err |-> "nil"]
    ELSE IF r.n # 1
    THEN [has |-> FALSE, online |-> FALSE, info |-> "nil", err |-> "fmt"]
    ELSE IF r.st = REDIS_STATUS_ONLINE
    THEN [has |-> TRUE, online |-> TRUE, info |-> r.st, err |-> "nil"]
    ELSE IF r.st = REDIS_STATUS_INIT \/ r.st = REDIS_STATUS_PROCESSING
    THEN [has |-> TRUE, online |-> FALSE, info |-> r.st, err |-> "nil"]
    ELSE [has |-> TRUE, online |-> FALSE, info |-> r.st, err |-> "fmt"]

\* What a handler returns for error e of a service function.
RedisErr(e) == IF e = "fmt" THEN "err_check" ELSE "err_remote"

\* Responses of a request that changes the instance while the remote is g.
RedisModify(g) ==
    [err : Errs \ {VPCNotFound}]
    \cup (IF g.st = "ABSENT" THEN {[err |-> VPCNotFound]} ELSE {[err |-> "nil"]})

\* DescribeZones as getZoneId/getZoneName use it: an error, or a zone list that
\* holds the zone asked for or not.
RedisDescribeZones == [err : Errs, has : {FALSE}] \cup [err : {"nil"}, has : BOOLEAN]

\* zone: availability_zone names the client's region or not; vpc_id and subnet_id:
\* "" when not set.
RedisCreateConfigs ==
    [zone : {"in", "out"}, vpc_id : {"", "vpc-1"}, subnet_id : {"", "subnet-1"},
     security_groups : {{}, {"sg-1"}}, tags : BOOLEAN]

\* Mutant: security groups are accepted without a VPC.
RedisVpcCheck_AnySecurityGroups(vpcId, subnetId, securityGroups) ==
    IF (vpcId = "" /\ subnetId # "") \/ (vpcId # "" /\ subnetId = "") THEN FALSE
    ELSE TRUE

\* CreateInstances: the check of vpcId, subnetId and securityGroups.
RedisVpcCheck(vpcId, subnetId, securityGroups) ==
    IF (vpcId = "" /\ subnetId # "") \/ (vpcId # "" /\ subnetId = "") THEN FALSE
    ELSE IF vpcId # "" /\ subnetId # "" THEN TRUE
    ELSE IF Cardinality(securityGroups) > 0 THEN FALSE
    ELSE TRUE

\* CreateInstances: the fields of the request the check decides; "nil" is unset.
RedisCreateRequest(vpcId, subnetId, securityGroups) ==
    [VpcId |-> IF vpcId # "" /\ subnetId # "" THEN vpcId ELSE "nil",
     SubnetId |-> IF vpcId # "" /\ subnetId # "" THEN subnetId ELSE "nil",
     SecurityGroupIdList |-> securityGroups]

resourceTencentCloudRedisInstanceCreate_Enter ==
    /\ res = "redis" /\ id = <<>> /\ remote.st = "ABSENT" /\ op = "none"
    /\ \E c \in RedisCreateConfigs :
        /\ op' = "RedisCreate" /\ cfg' = c
        /\ calls' = <<>> /\ obs' = <<>> /\ partial' = {}
        /\ IF c.zone = "out" THEN Finish("err_local")
           ELSE Goto("Create.DescribeZones")
    /\ UNCHANGED <<res, remote, id>>

\* RedisService.CreateInstances up to its request: getZoneId, then the check.
resourceTencentCloudRedisInstanceCreate_DescribeZones ==
    /\ Running /\ op = "RedisCreate" /\ pc = "Create.DescribeZones"
    /\ \E r \in RedisDescribeZones :
        /\ Record(pc, r)
        /\ IF r.err # "nil" THEN Finish("err_remote")
           ELSE IF ~r.has THEN Finish("err_check")
           ELSE IF ~RedisVpcCheck(cfg.vpc_id, cfg.subnet_id, cfg.security_groups)
           THEN Finish("err_local")
           ELSE Goto("Create.CreateInstances")
    /\ UNCHANGED <<res, remote, id, op, cfg, partial>>

\* The CreateInstances request; the response is kept with the request's fields.
resourceTencentCloudRedisInstanceCreate_CreateInstances ==
    /\ Running /\ op = "RedisCreate" /\ pc = "Create.CreateInstances"
    /\ \E r \in [err : Errs, dealId : {<<>>}] \cup [err : {"nil"}, dealId : {<<>>, RedisId}] :
        /\ Record(pc, [err |-> r.err, dealId |-> r.dealId,
                       req |-> RedisCreateRequest(cfg.vpc_id, cfg.subnet_id,
                                                  cfg.security_groups)])
        /\ IF r.err # "nil" THEN Finish("err_remote") /\ remote' = remote
           ELSE /\ remote' = [st |-> REDIS_STATUS_INIT, vpc |-> cfg.vpc_id # "",
                              task |-> "none"]
                /\ IF r.dealId = <<>> THEN Finish("err_check")
                   ELSE Goto("Create.CheckRedisCreateOk")
    /\ UNCHANGED <<res, id, op, cfg, partial>>

\* The wait of Create: every error and a missing instance end it.
RedisCreateWaitClass(c) ==
    IF c.err # "nil" THEN "fail"
    ELSE IF ~c.has THEN "fail"
    ELSE IF c.online THEN "done"
    ELSE "retry"

resourceTencentCloudRedisInstanceCreate_Wait ==
    /\ Running /\ op = "RedisCreate" /\ pc = "Create.CheckRedisCreateOk"
    /\ \E r \in RedisDescribeInstances(remote, Obs("Create.CreateInstances").dealId) :
        /\ Record(pc, r)
        /\ LET c == CheckRedisCreateOk(r)
               cls == RedisCreateWaitClass(c) IN
           IF cls = "done"
           THEN /\ id' = Obs("Create.CreateInstances").dealId
                /\ Goto(IF cfg.tags THEN "Create.ModifyTags" ELSE "Read.CheckRedisCreateOk")
           ELSE Retry(cls, IF c.err = "nil" THEN "err_check" ELSE RedisErr(c.err))
                /\ id' = id
    /\ UNCHANGED <<res, remote, op, cfg, partial>>

resourceTencentCloudRedisInstanceCreate_ModifyTags ==
    /\ Running /\ op = "RedisCreate" /\ pc = "Create.ModifyTags"
    /\ \E r \in Plain :
        /\ Record(pc, r)
        /\ IF r.err # "nil" THEN Finish("err_remote") ELSE Goto("Read.CheckRedisCreateOk")
    /\ UNCHANGED <<res, remote, id, op, cfg, partial>>

resourceTencentCloudRedisInstanceRead_Enter ==
    /\ res = "redis" /\ id # <<>>
    /\ Enter("RedisRead", <<>>, "Read.CheckRedisCreateOk")
    /\ UNCHANGED <<res, remote, id>>

\* Mutant: an isolated or deleted instance is an error like any status that is
\* not online, init or processing.
RedisReadAfterCheck_IsolatedIsError(c) ==
    IF c.err # "nil" THEN Finish(RedisErr(c.err)) /\ id' = id
    ELSE IF ~c.has THEN Finish("ok") /\ id' = <<>>
    ELSE IF c.info \notin REDIS_STATUS THEN Finish("err_check") /\ id' = id
    ELSE Goto("Read.DescribeZones") /\ id' = id

\* Read after CheckRedisCreateOk gave c: the ID is cleared for an isolated or
\* deleted instance and for a missing one; info.Type and the tags are taken as
\* well formed.
RedisReadAfterCheck(c) ==
    IF c.info # "nil" /\ (c.info = REDIS_STATUS_ISOLATE \/ c.info = REDIS_STATUS_TODELETE)
    THEN Finish("ok") /\ id' = <<>>
    ELSE IF c.err # "nil" THEN Finish(RedisErr(c.err)) /\ id' = id
    ELSE IF ~c.has THEN Finish("ok") /\ id' = <<>>
    ELSE IF c.info \notin REDIS_STATUS THEN Finish("err_check") /\ id' = id
    ELSE Goto("Read.DescribeZones") /\ id' = id

resourceTencentCloudRedisInstanceRead_CheckRedisCreateOk ==
    /\ Running /\ op \in {"RedisRead", "RedisCreate", "RedisUpdate"}
    /\ pc = "Read.CheckRedisCreateOk"
    /\ \E r \in RedisDescribeInstances(remote, id) :
        /\ Record(pc, r)
        /\ RedisReadAfterCheck(CheckRedisCreateOk(r))
    /\ UNCHANGED <<res, remote, op, cfg, partial>>

\* getZoneName, then the security groups of an instance in a VPC.
resourceTencentCloudRedisInstanceRead_DescribeZones ==
    /\ Running /\ op \in {"RedisRead", "RedisCreate", "RedisUpdate"}
    /\ pc = "Read.DescribeZones"
    /\ \E r \in RedisDescribeZones :
        /\ Record(pc, r)
        /\ IF r.err # "nil" THEN Finish("err_remote")
           ELSE IF ~r.has THEN Finish("err_check")
           ELSE IF remote.vpc THEN Goto("Read.DescribeInstanceSecurityGroup")
           ELSE Finish("ok")
    /\ UNCHANGED <<res, remote, id, op, cfg, partial>>

resourceTencentCloudRedisInstanceRead_DescribeInstanceSecurityGroup ==
    /\ Running /\ op \in {"RedisRead", "RedisCreate", "RedisUpdate"}
    /\ pc = "Read.DescribeInstanceSecurityGroup"
    /\ \E r \in Plain :
        /\ Record(pc, r)
        /\ IF r.err # "nil" THEN Finish("err_remote") ELSE Finish("ok")
    /\ UNCHANGED <<res, remote, id, op, cfg, partial>>

\* The diff of an Update: keys whose value changed, mem_size before and after.
RedisUpdateConfigs ==
    [changed : SUBSET {"name", "password", "project_id", "tags"},
     old : 1..MaxMem, new : 0..MaxMem]

\* d.HasChange(key)
RedisHasChange(c, key) ==
    IF key = "mem_size" THEN c.old # c.new ELSE key \in c.changed

\* The keys Update handles, in the order of the code, and the request of each.
RedisUpdateKeys == <<"name", "mem_size", "password", "project_id", "tags">>
RedisUpdateSite(key) ==
    CASE key = "name" -> "Update.ModifyInstanceName"
      [] key = "mem_size" -> "Update.UpgradeInstance"
      [] key = "password" -> "Update.ResetPassword"
      [] key = "project_id" -> "Update.ModifyInstanceProjectId"
      [] key = "tags" -> "Update.ModifyTags"

\* The checks of mem_size before UpgradeInstance.
RedisMemSizeCheck(c) ==
    IF c.old >= c.new THEN FALSE
    ELSE IF c.new < 1 THEN FALSE
    ELSE TRUE

\* Update goes on after the block of key number i: to the request of the next key
\* that changed, to the error of the mem_size check, or to the closing Read.
RedisUpdateProceed(c, i) ==
    LET pending == {j \in (i + 1)..Len(RedisUpdateKeys) : RedisHasChange(c, RedisUpdateKeys[j])}
    IN  IF pending = {} THEN Goto("Read.CheckRedisCreateOk")
        ELSE LET key == RedisUpdateKeys[CHOOSE j \in pending : \A m \in pending : j <= m]
             IN  IF key = "mem_size" /\ ~RedisMemSizeCheck(c) THEN Finish("err_local")
                 ELSE Goto(RedisUpdateSite(key))

resourceTencentCloudRedisInstanceUpdate_Enter ==
    /\ res = "redis" /\ id # <<>> /\ op = "none"
    /\ \E c \in RedisUpdateConfigs :
        /\ op' = "RedisUpdate" /\ cfg' = c
        /\ calls' = <<>> /\ obs' = <<>> /\ partial' = {}
        /\ RedisUpdateProceed(c, 0)
    /\ UNCHANGED <<res, remote, id>>

resourceTencentCloudRedisInstanceUpdate_ModifyInstanceName ==
    /\ Running /\ op = "RedisUpdate" /\ pc = "Update.ModifyInstanceName"
    /\ \E r \in RedisModify(remote) :
        /\ Record(pc, r)
        /\ IF r.err # "nil" THEN Finish("err_remote") /\ partial' = partial
           ELSE RedisUpdateProceed(cfg, 1) /\ partial' = partial \cup {"name"}
    /\ UNCHANGED <<res, remote, id, op, cfg>>

\* UpgradeInstance returns (dealId, err); Update logs err and goes on to the wait
\* with the dealId it got, the empty string after an error.
resourceTencentCloudRedisInstanceUpdate_UpgradeInstance ==
    /\ Running /\ op = "RedisUpdate" /\ pc = "Update.UpgradeInstance"
    /\ \E r \in RedisModify(remote) :
        /\ Record(pc, [err |-> r.err, dealId |-> IF r.err = "nil" THEN id ELSE <<>>])
        /\ remote' = IF r.err = "nil" /\ remote.st = REDIS_STATUS_ONLINE
                     THEN [remote EXCEPT !.st = REDIS_STATUS_PROCESSING]
                     ELSE remote
        /\ Goto("Update.CheckRedisCreateOk")
    /\ UNCHANGED <<res, id, op, cfg, partial>>

\* The wait after UpgradeInstance on what CheckRedisCreateOk gave.
RedisUpgradeWaitClass(c) ==
    IF c.info # "nil"
    THEN IF c.info \notin REDIS_STATUS THEN "fail"
         ELSE IF c.info = REDIS_STATUS_PROCESSING \/ c.info = REDIS_STATUS_INIT THEN "retry"
         ELSE IF c.info = REDIS_STATUS_ONLINE THEN "done"
         ELSE "fail"
    ELSE IF c.err # "nil"
    THEN IF ~IsSdkError(c.err) THEN "retry" ELSE "fail"
    ELSE "fail"

resourceTencentCloudRedisInstanceUpdate_UpgradeWait ==
    /\ Running /\ op = "RedisUpdate" /\ pc = "Update.CheckRedisCreateOk"
    /\ \E r \in RedisDescribeInstances(remote, Obs("Update.UpgradeInstance").dealId) :
        /\ Record(pc, r)
        /\ LET c == CheckRedisCreateOk(r)
               cls == RedisUpgradeWaitClass(c) IN
           IF cls = "done"
           THEN RedisUpdateProceed(cfg, 2) /\ partial' = partial \cup {"mem_size"}
           ELSE Retry(cls, IF c.err \in Errs THEN "err_remote" ELSE "err_check")
                /\ partial' = partial
    /\ UNCHANGED <<res, remote, id, op, cfg>>

\* Responses of DescribeTaskInfo for the task last started while the remote is g.
RedisDescribeTaskInfo(g) ==
    [err : Errs, status : {"-"}] \cup {[err |-> "nil", status |-> g.task]}

\* RedisService.DescribeTaskInfo on response r: (ok, errRet).
DescribeTaskInfo(r) ==
    IF r.err # "nil" THEN [ok |-> FALSE, err |-> r.err]
    ELSE IF r.status = REDIS_TASK_RUNNING \/ r.status = REDIS_TASK_PREPARING
    THEN [ok |-> FALSE, err |-> "nil"]
    ELSE IF r.status = REDIS_TASK_SUCCEED THEN [ok |-> TRUE, err |-> "nil"]
    ELSE [ok |-> FALSE, err |-> "fmt"]

\* Mutant: an SDK error of DescribeTaskInfo ends the wait as if the task had
\* succeeded.
RedisTaskWaitClass_SdkErrorDone(t) ==
    IF t.err # "nil"
    THEN IF ~IsSdkError(t.err) THEN "retry" ELSE "done"
    ELSE IF t.ok THEN "done"
    ELSE "retry"

\* The wait for a task, of Delete and of the password block of Update: an error
\* that is not an SDK error is retried, an SDK error ends the wait.
RedisTaskWaitClass(t) ==
    IF t.err # "nil"
    THEN IF ~IsSdkError(t.err) THEN "retry" ELSE "fail"
    ELSE IF t.ok THEN "done"
    ELSE "retry"

resourceTencentCloudRedisInstanceUpdate_ResetPassword ==
    /\ Running /\ op = "RedisUpdate" /\ pc = "Update.ResetPassword"
    /\ \E r \in RedisModify(remote) :
        /\ Record(pc, r)
        /\ IF r.err # "nil" THEN Finish("err_remote") /\ remote' = remote
           ELSE Goto("Update.DescribeTaskInfo")
                /\ remote' = [remote EXCEPT !.task = REDIS_TASK_PREPARING]
    /\ UNCHANGED <<res, id, op, cfg, partial>>

resourceTencentCloudRedisInstanceUpdate_PasswordWait ==
    /\ Running /\ op = "RedisUpdate" /\ pc = "Update.DescribeTaskInfo"
    /\ \E r \in RedisDescribeTaskInfo(remote) :
        /\ Record(pc, r)
        /\ LET t == DescribeTaskInfo(r)
               cls == RedisTaskWaitClass(t) IN
           IF cls = "done"
           THEN RedisUpdateProceed(cfg, 3) /\ partial' = partial \cup {"password"}
           ELSE Retry(cls, RedisErr(t.err)) /\ partial' = partial
    /\ UNCHANGED <<res, remote, id, op, cfg>>

resourceTencentCloudRedisInstanceUpdate_ModifyInstanceProjectId ==
    /\ Running /\ op = "RedisUpdate" /\ pc = "Update.ModifyInstanceProjectId"
    /\ \E r \in RedisModify(remote) :
        /\ Record(pc, r)
        /\ IF r.err # "nil" THEN Finish("err_remote") /\ partial' = partial
           ELSE RedisUpdateProceed(cfg, 4) /\ partial' = partial \cup {"project_id"}
    /\ UNCHANGED <<res, remote, id, op, cfg>>

resourceTencentCloudRedisInstanceUpdate_ModifyTags ==
    /\ Running /\ op = "RedisUpdate" /\ pc = "Update.ModifyTags"
    /\ \E r \in Plain :
        /\ Record(pc, r)
        /\ IF r.err # "nil" THEN Finish("err_remote") /\ partial' = partial
           ELSE RedisUpdateProceed(cfg, Len(RedisUpdateKeys))
                /\ partial' = partial \cup {"tags"}
    /\ UNCHANGED <<res, remote, id, op, cfg>>

resourceTencentCloudRedisInstanceDelete_Enter ==
    /\ res = "redis" /\ id # <<>>
    /\ Enter("RedisDelete", <<>>, "Delete.DestroyPostpaidInstance")
    /\ UNCHANGED <<res, remote, id>>

resourceTencentCloudRedisInstanceDelete_DestroyPostpaidInstance ==
    /\ Running /\ op = "RedisDelete" /\ pc = "Delete.DestroyPostpaidInstance"
    /\ \E r \in RedisModify(remote) :
        /\ Record(pc, r)
        /\ IF r.err # "nil" THEN Finish("err_remote") /\ remote' = remote
           ELSE Goto("Delete.DescribeTaskInfo.Destroy")
                /\ remote' = [remote EXCEPT !.st = REDIS_STATUS_ISOLATE,
                                            !.task = REDIS_TASK_PREPARING]
    /\ UNCHANGED <<res, id, op, cfg, partial>>

\* wait("DestroyPostpaidInstance", taskId)
resourceTencentCloudRedisInstanceDelete_DestroyWait ==
    /\ Running /\ op = "RedisDelete" /\ pc = "Delete.DescribeTaskInfo.Destroy"
    /\ \E r \in RedisDescribeTaskInfo(remote) :
        /\ Record(pc, r)
        /\ LET t == DescribeTaskInfo(r)
               cls == RedisTaskWaitClass(t) IN
           IF cls = "done" THEN Goto("Delete.CleanUpInstance")
           ELSE Retry(cls, RedisErr(t.err))
    /\ UNCHANGED <<res, remote, id, op, cfg, partial>>

resourceTencentCloudRedisInstanceDelete_CleanUpInstance ==
    /\ Running /\ op = "RedisDelete" /\ pc = "Delete.CleanUpInstance"
    /\ \E r \in RedisModify(remote) :
        /\ Record(pc, r)
        /\ IF r.err # "nil" THEN Finish("err_remote") /\ remote' = remote
           ELSE Goto("Delete.DescribeTaskInfo.CleanUp")
                /\ remote' = [remote EXCEPT !.st = REDIS_STATUS_TODELETE,
                                            !.task = REDIS_TASK_PREPARING]
    /\ UNCHANGED <<res, id, op, cfg, partial>>

\* wait("CleanUpInstance", taskId)
resourceTencentCloudRedisInstanceDelete_CleanUpWait ==
    /\ Running /\ op = "RedisDelete" /\ pc = "Delete.DescribeTaskInfo.CleanUp"
    /\ \E r \in RedisDescribeTaskInfo(remote) :
        /\ Record(pc, r)
        /\ LET t == DescribeTaskInfo(r)
               cls == RedisTaskWaitClass(t) IN
           IF cls = "done" THEN Finish("ok")
           ELSE Retry(cls, RedisErr(t.err))
    /\ UNCHANGED <<res, remote, id, op, cfg, partial>>

----------------------------------------------------------------------------
(* Image data source: src/tencentcloud/data_source_tc_image.go *)
(* A string is a sequence of characters, <<>> the empty string. *)

\* Most images DescribeImagesByFilter returns.
MaxImages == 2

\* strings.ToLower
ToLowerChar(ch) ==
    CASE ch = "C" -> "c"
      [] ch = "U" -> "u"
      [] OTHER -> ch
ToLower(s) == [i \in DOMAIN s |-> ToLowerChar(s[i])]

\* strings.Contains(s, substr)
Contains(s, substr) ==
    \E i \in 0..(Len(s) - Len(substr)) : SubSeq(s, i + 1, i + Len(substr)) = substr

\* Regexp.MatchString for a pattern of literal characters, anchored at the start
\* of the text when it begins with ^.
MatchString(re, s) ==
    IF re # <<>> /\ Head(re) = "^"
    THEN Len(Tail(re)) <= Len(s) /\ SubSeq(s, 1, Len(Tail(re))) = Tail(re)
    ELSE Contains(s, re)

ImageIds == <<"img-1", "img-2", "img-3", "img-4">>
ImageOsNames == {<<"C", "e">>, <<"U", "b">>}
ImageNames == {<<"a", "b">>, <<"b", "a">>}
\* The image lists DescribeImagesByFilter can return, in the order of the API.
ImageLists ==
    UNION {{[i \in 1..n |-> [ImageId |-> <<ImageIds[i]>>, OsName |-> f[i].OsName,
                             ImageName |-> f[i].ImageName]] :
               f \in [1..n -> [OsName : ImageOsNames, ImageName : ImageNames]]} :
           n \in 0..MaxImages}

\* os_name and image_name_regex as d.GetOk gives them, <<>> when not set;
\* result_output_file is not set.
ImageReadConfigs ==
    [os_name : {<<>>, <<"c", "e">>, <<"U">>, <<"x">>},
     image_name_regex : {<<>>, <<"^", "a">>, <<"a">>}]

\* sortImages returns the images in an order of its own.
sortImages(images) ==
    {[i \in DOMAIN images |-> images[p[i]]] :
        p \in {q \in [DOMAIN images -> DOMAIN images] :
                  \A i, j \in DOMAIN images : q[i] = q[j] => i = j}}

\* helper.DataResourceIdHash
DataResourceIdHash(s) == <<"hash">> \o s

\* Mutant: image_name_regex is tried before os_name.
RECURSIVE ImageSelect_RegexFirst(_, _, _)
ImageSelect_RegexFirst(images, osName, imageNameRegex) ==
    IF images = <<>> THEN <<>>
    ELSE LET image == Head(images) IN
         IF imageNameRegex # <<>>
         THEN IF MatchString(imageNameRegex, image.ImageName) THEN image.ImageId
              ELSE ImageSelect_RegexFirst(Tail(images), osName, imageNameRegex)
         ELSE IF osName # <<>>
         THEN IF Contains(ToLower(image.OsName), ToLower(osName)) THEN image.ImageId
              ELSE ImageSelect_RegexFirst(Tail(images), osName, imageNameRegex)
         ELSE image.ImageId

\* The loop over the sorted images: resultImageId, <<>> when no image is taken.
RECURSIVE ImageSelect(_, _, _)
ImageSelect(images, osName, imageNameRegex) ==
    IF images = <<>> THEN <<>>
    ELSE LET image == Head(images) IN
         IF osName # <<>>
         THEN IF Contains(ToLower(image.OsName), ToLower(osName)) THEN image.ImageId
              ELSE ImageSelect(Tail(images), osName, imageNameRegex)
         ELSE IF imageNameRegex # <<>>
         THEN IF MatchString(imageNameRegex, image.ImageName) THEN image.ImageId
              ELSE ImageSelect(Tail(images), osName, imageNameRegex)
         ELSE image.ImageId

dataSourceTencentCloudImageRead_Enter ==
    /\ res = "image"
    /\ \E c \in ImageReadConfigs : Enter("ImageRead", c, "Read.DescribeImagesByFilter")
    /\ id' = <<>>
    /\ UNCHANGED <<res, remote>>

\* DescribeImagesByFilter in its retry loop, then the choice among the images; the
\* response is kept with the order sortImages gave.
dataSourceTencentCloudImageRead_DescribeImagesByFilter ==
    /\ Running /\ op = "ImageRead" /\ pc = "Read.DescribeImagesByFilter"
    /\ \/ \E e \in Errs :
            /\ Record(pc, [err |-> e, images |-> <<>>, sorted |-> <<>>])
            /\ Retry(retryError(e, {InternalError}), "err_remote")
            /\ id' = id
       \/ \E sorted \in sortImages(remote) :
            /\ Record(pc, [err |-> "nil", images |-> remote, sorted |-> sorted])
            /\ IF Len(remote) = 0 THEN Finish("err_check") /\ id' = id
               ELSE LET resultImageId ==
                            ImageSelect(sorted, cfg.os_name, cfg.image_name_regex) IN
                    IF resultImageId = <<>> THEN Finish("err_check") /\ id' = id
                    ELSE Finish("ok") /\ id' = DataResourceIdHash(resultImageId)
    /\ UNCHANGED <<res, remote, op, cfg, partial>>

----------------------------------------------------------------------------
(* Provider configuration: src/unnamed/part_011 *)

\* The session duration providerConfigure falls back to.
DefaultSessionDuration == 7200

DecimalDigits == <<"0", "1", "2", "3", "4", "5", "6", "7", "8", "9">>

\* strconv.Atoi on a text without a sign: (value, ok).
RECURSIVE AtoiValue(_)
AtoiValue(s) ==
    IF s = <<>> THEN 0
    ELSE AtoiValue(SubSeq(s, 1, Len(s) - 1)) * 10
         + (IndexOf(DecimalDigits, s[Len(s)]) - 1)
Atoi(s) ==
    IF s = <<>> \/ \E i \in DOMAIN s : s[i] \notin Range(DecimalDigits)
    THEN [ok |-> FALSE, value |-> 0]
    ELSE [ok |-> TRUE, value |-> AtoiValue(s)]

\* assume_role: the block is given; session_duration: its value, 0 when left out;
\* env: TENCENTCLOUD_ASSUME_ROLE_SESSION_DURATION as os.Getenv gives it, <<>> when
\* unset.
ProviderConfigs ==
    [assume_role : BOOLEAN, session_duration : {0, 3600},
     env : {<<>>, <<"0">>, <<"9", "0">>, <<"9", "0", "0">>, <<"x">>, <<"9", "x">>}]

\* assumeRoleSessionDuration as providerConfigure computes it: ok is FALSE when
\* it returns the error of strconv.Atoi.
ProviderSessionDuration(c) ==
    IF c.session_duration = 0
    THEN IF c.env # <<>>
         THEN IF ~Atoi(c.env).ok THEN [ok |-> FALSE, value |-> 0]
              ELSE IF Atoi(c.env).value = 0
              THEN [ok |-> TRUE, value |-> DefaultSessionDuration]
              ELSE [ok |-> TRUE, value |-> Atoi(c.env).value]
         ELSE [ok |-> TRUE, value |-> c.session_duration]
    ELSE [ok |-> TRUE, value |-> c.session_duration]

providerConfigure_Enter ==
    /\ res = "provider" /\ op = "none"
    /\ \E c \in ProviderConfigs :
        /\ op' = "providerConfigure" /\ cfg' = c
        /\ calls' = <<>> /\ obs' = <<>> /\ partial' = {}
        /\ IF ~c.assume_role THEN Finish("ok")
           ELSE IF ~ProviderSessionDuration(c).ok THEN Finish("err_local")
           ELSE Goto("Configure.AssumeRole")
    /\ UNCHANGED <<res, remote, id>>

\* The AssumeRole request; the response is kept with the DurationSeconds sent.
providerConfigure_AssumeRole ==
    /\ Running /\ op = "providerConfigure" /\ pc = "Configure.AssumeRole"
    /\ \E r \in Plain :
        /\ Record(pc, [err |-> r.err,
                       DurationSeconds |-> ProviderSessionDuration(cfg).value])
        /\ IF r.err # "nil" THEN Finish("err_remote") ELSE Finish("ok")
    /\ UNCHANGED <<res, remote, id, op, cfg, partial>>

----------------------------------------------------------------------------
(* CDN domain: src/tencentcloud/service_tencentcloud_cdn.go and the checks of *)
(* the acceptance test src/unnamed/part_004                                   *)

\* The SDK error code for a domain the account does not hold.
CDN_HOST_NOT_FOUND == "ResourceNotFound.CdnHostNotExists"
CdnSdkCodes == SdkCodes \cup {CDN_HOST_NOT_FOUND}

\* rs.Primary.ID: the domain.
CdnDomainId == <<"d1">>
\* The remote is the list of domains the filter of the request matches.
CdnDomainLists == {<<>>, <<"d1">>, <<"d1", "d2">>, <<"d2", "d1">>}

\* The domain is deleted.
CdnRemoteStep ==
    /\ res = "cdn" /\ remote # <<>>
    /\ remote' = <<>>
    /\ UNCHANGED <<res, id, op, cfg, pc, attempts, calls, obs, partial, result>>

\* Responses of DescribeDomainsConfig while the remote is g.
CdnDescribeDomainsConfig(g) ==
    [err : Errs, Domains : {<<>>}]
    \cup {[err |-> "nil", Domains |-> g]}
    \cup (IF g = <<>> THEN {[err |-> CDN_HOST_NOT_FOUND, Domains |-> <<>>]} ELSE {})

\* Mutant: the host-not-found code is returned like any other error.
DescribeDomainsConfigByDomain_NotFoundIsError(r) ==
    IF r.err # "nil" THEN [domainConfig |-> "nil", errRet |-> r.err]
    ELSE IF Len(r.Domains) > 0 THEN [domainConfig |-> r.Domains[1], errRet |-> "nil"]
    ELSE [domainConfig |-> "nil", errRet |-> "nil"]

\* CdnService.DescribeDomainsConfigByDomain on response r: (domainConfig, errRet).
DescribeDomainsConfigByDomain(r) ==
    IF r.err # "nil"
    THEN IF r.err \in CdnSdkCodes /\ r.err = CDN_HOST_NOT_FOUND
         THEN [domainConfig |-> "nil", errRet |-> "nil"]
         ELSE [domainConfig |-> "nil", errRet |-> r.err]
    ELSE IF Len(r.Domains) > 0 THEN [domainConfig |-> r.Domains[1], errRet |-> "nil"]
    ELSE [domainConfig |-> "nil", errRet |-> "nil"]

\* A call of the service function: the response is kept with what it returned.
CdnCall(r) ==
    Record(pc, [err |-> r.err, Domains |-> r.Domains,
                domainConfig |-> DescribeDomainsConfigByDomain(r).domainConfig,
                errRet |-> DescribeDomainsConfigByDomain(r).errRet])

\* The end of a check: Destroy fails on a domain, Exists on none.
CdnCheckEnd(domainConfig) ==
    IF op = "CdnDestroyCheck"
    THEN IF domainConfig # "nil" THEN Finish("err_check") ELSE Finish("ok")
    ELSE IF domainConfig = "nil" THEN Finish("err_check") ELSE Finish("ok")

testAccCheckCdnDomainDestroy_Enter ==
    /\ res = "cdn"
    /\ Enter("CdnDestroyCheck", <<>>, "Check.Describe0")
    /\ UNCHANGED <<res, remote, id>>

testAccCheckCdnDomainExists_Enter ==
    /\ res = "cdn" /\ id # <<>>
    /\ Enter("CdnExistsCheck", <<>>, "Check.Describe0")
    /\ UNCHANGED <<res, remote, id>>

\* The first call of a check, outside resource.Retry.
testAccCheckCdnDomain_Describe0 ==
    /\ Running /\ op \in {"CdnDestroyCheck", "CdnExistsCheck"} /\ pc = "Check.Describe0"
    /\ \E r \in CdnDescribeDomainsConfig(remote) :
        /\ CdnCall(r)
        /\ LET v == DescribeDomainsConfigByDomain(r) IN
           IF v.errRet # "nil" THEN Goto("Check.Describe")
           ELSE CdnCheckEnd(v.domainConfig)
    /\ UNCHANGED <<res, remote, id, op, cfg, partial>>

\* The calls of a check inside resource.Retry.
testAccCheckCdnDomain_Describe ==
    /\ Running /\ op \in {"CdnDestroyCheck", "CdnExistsCheck"} /\ pc = "Check.Describe"
    /\ \E r \in CdnDescribeDomainsConfig(remote) :
        /\ CdnCall(r)
        /\ LET v == DescribeDomainsConfigByDomain(r) IN
           IF v.errRet # "nil" THEN Retry(retryError(v.errRet, {}), "err_remote")
           ELSE CdnCheckEnd(v.domainConfig)
    /\ UNCHANGED <<res, remote, id, op, cfg, partial>>

----------------------------------------------------------------------------

Init ==
    /\ res \in {"vpn", "cbs", "route", "tke", "redis", "image", "provider", "cdn"}
    /\ op = "none" /\ cfg = <<>> /\ pc = "idle" /\ attempts = 0
    /\ calls = <<>> /\ obs = <<>> /\ partial = {} /\ result = "none"
    /\ CASE res = "vpn" ->
              \/ id = <<>> /\ remote = VpnAbsent
              \/ id = VpnGatewayId /\ remote \in VpnRemotes
         [] res = "cbs" -> id = CbsStorageId /\ remote \in CbsRemotes
         [] res = "route" ->
              \/ id = <<>> /\ remote = RouteAbsent
              \/ id = RouteEntryId \o <<".", "rtb-1">> /\ remote \in {RouteAbsent, RoutePresent}
         [] res = "tke" ->
              \/ id = <<>> /\ remote \in {g \in TkeRemotes : g.worker = "none"}
              \/ id = TkeAttachmentId /\ remote \in TkeRemotes
         [] res = "redis" ->
              \/ id = <<>> /\ remote = RedisAbsent
              \/ id = RedisId /\ remote \in RedisRemotes
         [] res = "image" -> id = <<>> /\ remote \in ImageLists
         [] res = "provider" -> id = <<>> /\ remote = <<>>
         [] res = "cdn" -> id = CdnDomainId /\ remote \in CdnDomainLists

Next ==
    \/ Return
    \/ VpnRemoteStep
    \/ resourceTencentCloudVpnGatewayCreate_Enter
    \/ resourceTencentCloudVpnGatewayCreate_CreateVpnGateway
    \/ resourceTencentCloudVpnGatewayCreate_Wait
    \/ resourceTencentCloudVpnGatewayCreate_ModifyTags
    \/ resourceTencentCloudVpnGatewayRead_Enter
    \/ resourceTencentCloudVpnGatewayRead_Describe
    \/ resourceTencentCloudVpnGatewayRead_Tags
    \/ resourceTencentCloudVpnGatewayUpdate_Enter
    \/ resourceTencentCloudVpnGatewayUpdate_ModifyVpnGatewayAttribute
    \/ resourceTencentCloudVpnGatewayUpdate_ResetBandwidth
    \/ resourceTencentCloudVpnGatewayUpdate_ModifyTags
    \/ resourceTencentCloudVpnGatewayDelete_Enter
    \/ resourceTencentCloudVpnGatewayDelete_DescribeCharge
    \/ resourceTencentCloudVpnGatewayDelete_DescribeVpnConnections
    \/ resourceTencentCloudVpnGatewayDelete_DeleteVpnGateway
    \/ resourceTencentCloudVpnGatewayDelete_Gone
    \/ CbsRemoteStep
    \/ resourceTencentCloudCbsStorageUpdate_Enter
    \/ resourceTencentCloudCbsStorageUpdate_ModifyDiskAttributes
    \/ resourceTencentCloudCbsStorageUpdate_ResizeDisk
    \/ resourceTencentCloudCbsStorageUpdate_ResizeWait
    \/ resourceTencentCloudCbsStorageUpdate_ApplySnapshot
    \/ resourceTencentCloudCbsStorageUpdate_SnapshotWait
    \/ resourceTencentCloudCbsStorageUpdate_ModifyTags
    \/ resourceTencentCloudCbsStorageDelete_Enter
    \/ resourceTencentCloudCbsStorageDelete_DeleteDiskById
    \/ RouteRemoteStep
    \/ resourceTencentCloudVpcRouteEntryCreate_Enter
    \/ resourceTencentCloudVpcRouteEntryCreate_CreateRoutes
    \/ resourceTencentCloudVpcRouteEntryDelete_Enter
    \/ resourceTencentCloudVpcRouteEntryDelete_DeleteRoutes
    \/ TkeRemoteStep
    \/ resourceTencentCloudTkeClusterAttachmentRead_Enter
    \/ resourceTencentCloudTkeClusterAttachmentRead_DescribeCluster0
    \/ resourceTencentCloudTkeClusterAttachmentRead_DescribeCluster
    \/ resourceTencentCloudTkeClusterAttachmentRead_DescribeInstanceById
    \/ resourceTencentCloudTkeClusterAttachmentRead_DescribeClusterInstances0
    \/ resourceTencentCloudTkeClusterAttachmentRead_DescribeClusterInstances
    \/ resourceTencentCloudTkeClusterAttachmentCreate_Enter
    \/ resourceTencentCloudTkeClusterAttachmentCreate_DescribeClusterInstances0
    \/ resourceTencentCloudTkeClusterAttachmentCreate_DescribeClusterInstances
    \/ resourceTencentCloudTkeClusterAttachmentCreate_AddExistedInstances
    \/ resourceTencentCloudTkeClusterAttachmentCreate_DescribeInstanceById
    \/ resourceTencentCloudTkeClusterAttachmentCreate_WaitClusterInstances
    \/ RedisRemoteStep
    \/ resourceTencentCloudRedisInstanceCreate_Enter
    \/ resourceTencentCloudRedisInstanceCreate_DescribeZones
    \/ resourceTencentCloudRedisInstanceCreate_CreateInstances
    \/ resourceTencentCloudRedisInstanceCreate_Wait
    \/ resourceTencentCloudRedisInstanceCreate_ModifyTags
    \/ resourceTencentCloudRedisInstanceRead_Enter
    \/ resourceTencentCloudRedisInstanceRead_CheckRedisCreateOk
    \/ resourceTencentCloudRedisInstanceRead_DescribeZones
    \/ resourceTencentCloudRedisInstanceRead_DescribeInstanceSecurityGroup
    \/ resourceTencentCloudRedisInstanceUpdate_Enter
    \/ resourceTencentCloudRedisInstanceUpdate_ModifyInstanceName
    \/ resourceTencentCloudRedisInstanceUpdate_UpgradeInstance
    \/ resourceTencentCloudRedisInstanceUpdate_UpgradeWait
    \/ resourceTencentCloudRedisInstanceUpdate_ResetPassword
    \/ resourceTencentCloudRedisInstanceUpdate_PasswordWait
    \/ resourceTencentCloudRedisInstanceUpdate_ModifyInstanceProjectId
    \/ resourceTencentCloudRedisInstanceUpdate_ModifyTags
    \/ resourceTencentCloudRedisInstanceDelete_Enter
    \/ resourceTencentCloudRedisInstanceDelete_DestroyPostpaidInstance
    \/ resourceTencentCloudRedisInstanceDelete_DestroyWait
    \/ resourceTencentCloudRedisInstanceDelete_CleanUpInstance
    \/ resourceTencentCloudRedisInstanceDelete_CleanUpWait
    \/ dataSourceTencentCloudImageRead_Enter
    \/ dataSourceTencentCloudImageRead_DescribeImagesByFilter
    \/ providerConfigure_Enter
    \/ providerConfigure_AssumeRole
    \/ CdnRemoteStep
    \/ testAccCheckCdnDomainDestroy_Enter
    \/ testAccCheckCdnDomainExists_Enter
    \/ testAccCheckCdnDomain_Describe0
    \/ testAccCheckCdnDomain_Describe

Spec == Init /\ [][Next]_vars

----------------------------------------------------------------------------
(* Properties *)

\* The handler made a step: it received a response (the control plane's own
\* steps leave the handler where it is).
HandlerStep == <<pc, attempts, result, op>>' # <<pc, attempts, result, op>>
Done(name) == op = name /\ result # "none"

\* C1: Kubernetes cluster attachment Read returns an error whenever
\* DescribeCluster still fails after the retry has given up; it never returns
\* success after such a failure.
C1_ReadFailsWhenDescribeClusterFails ==
    (Done("TkeRead") /\ Called("Read.DescribeCluster")
        /\ Obs("Read.DescribeCluster").err # "nil")
    => IsErr(result)

\* A response that shows the resource is gone: the not-found code, or a
\* successful describe without the resource.
ShowsAbsent(r) ==
    \/ r.err = VPCNotFound
    \/ r.err = "nil" /\ "n" \in DOMAIN r /\ r.n = 0
    \/ r.err = "nil" /\ "disk" \in DOMAIN r /\ ~r.disk

DeleteOps == {"VpnDelete", "CbsDelete", "RouteDelete"}
DeleteSite(o) ==
    CASE o = "VpnDelete" -> "Delete.DeleteVpnGateway"
      [] o = "CbsDelete" -> "Delete.DeleteDiskById"
      [] o = "RouteDelete" -> "Delete.DeleteRoutes"
\* The call sites of Delete that poll a describe API after the delete request.
DeletePollSites(o) ==
    CASE o = "VpnDelete" -> {"Delete.DescribeVpnGateways"}
      [] o = "CbsDelete" -> {"Delete.DescribeDiskById"}
      [] o = "RouteDelete" -> {"Delete.DescribeRouteTable"}

\* C2 as stated: every Delete (VPN gateway, CBS storage, route table entry) that
\* returns success has sent the delete request and afterwards polled a describe
\* API whose last response showed the resource gone.
C2_EveryDeletePollsForDisappearance ==
    \A o \in DeleteOps :
        (Done(o) /\ result = "ok") =>
            \E s \in DeletePollSites(o) :
                Before(DeleteSite(o), s) /\ ShowsAbsent(Obs(s))

\* C2 amended: a VPN gateway Delete that returns success has sent DeleteVpnGateway
\* and afterwards seen DescribeVpnGateways report the gateway gone; a CBS storage
\* or route table entry Delete that returns success has made the delete request
\* its only call, and its last response was success (route entry: or not-found).
C2_DeleteSuccessObserved ==
    /\ (Done("VpnDelete") /\ result = "ok") =>
            /\ Before("Delete.DeleteVpnGateway", "Delete.DescribeVpnGateways")
            /\ Obs("Delete.DeleteVpnGateway").err = "nil"
            /\ ShowsAbsent(Obs("Delete.DescribeVpnGateways"))
    /\ (Done("CbsDelete") /\ result = "ok") =>
            /\ calls = <<"Delete.DeleteDiskById">>
            /\ Obs("Delete.DeleteDiskById").err = "nil"
    /\ (Done("RouteDelete") /\ result = "ok") =>
            /\ calls = <<"Delete.DeleteRoutes">>
            /\ Obs("Delete.DeleteRoutes").err \in {"nil", VPCNotFound}

\* A VPN gateway Delete succeeded on an empty DescribeVpnGateways response that
\* was not the first poll after the delete request.
C2_Witness ==
    /\ Done("VpnDelete") /\ result = "ok" /\ attempts >= 1
    /\ remote.st = "ABSENT"
    /\ Obs("Delete.DescribeVpnGateways").err = "nil"

\* C3: VPN gateway Create returns success only after a DescribeVpnGateways
\* response, received after the CreateVpnGateway response, showed exactly one
\* gateway in state AVAILABLE; a response with another state is polled again (or
\* the timeout ends Create with an error), and a response with a gateway count
\* other than one ends Create with an error at once.
C3_CreateSuccessObserved ==
    (Done("VpnCreate") /\ result = "ok") =>
        /\ Before("Create.CreateVpnGateway", "Create.DescribeVpnGateways")
        /\ Obs("Create.CreateVpnGateway").err = "nil"
        /\ Obs("Create.DescribeVpnGateways").err = "nil"
        /\ Obs("Create.DescribeVpnGateways").n = 1
        /\ Obs("Create.DescribeVpnGateways").st = VPN_STATE_AVAILABLE

C3_CreateWaitStep ==
    (Running /\ op = "VpnCreate" /\ pc = "Create.DescribeVpnGateways" /\ HandlerStep) =>
        LET r == Obs("Create.DescribeVpnGateways")' IN
        /\ (r.err = "nil" /\ r.n # 1) => IsErr(result')
        /\ (r.err = "nil" /\ r.n = 1 /\ r.st # VPN_STATE_AVAILABLE) =>
                \/ pc' = pc /\ result' = "none" /\ attempts' = attempts + 1
                \/ result' = "err_timeout"
        /\ (r.err = "nil" /\ r.n = 1 /\ r.st = VPN_STATE_AVAILABLE) =>
                /\ result' = "none" /\ pc' # pc

C3_VpnCreateWaitsForAvailable ==
    [](C3_CreateSuccessObserved) /\ [][C3_CreateWaitStep]_vars

\* Create succeeded after the wait saw the gateway AVAILABLE.
C3_Witness ==
    /\ Done("VpnCreate") /\ result = "ok"
    /\ Obs("Create.DescribeVpnGateways").st = VPN_STATE_AVAILABLE
    /\ remote.st = VPN_STATE_AVAILABLE

\* C4: CBS storage Update with an increased storage_size sends ResizeDisk and
\* then polls DescribeDiskById; storage_size is recorded (SetPartial) only after
\* a poll response that did not show the disk EXPANDING; a response that shows it
\* EXPANDING is polled again, or the timeout ends Update with an error and
\* storage_size unrecorded.
C4_SizeRecordedAfterExpanding ==
    op = "CbsUpdate" =>
        /\ ("storage_size" \in partial) =>
                /\ cfg.old < cfg.new
                /\ Before("Update.ResizeDisk", "Update.ResizeWait")
                /\ Obs("Update.ResizeDisk").err = "nil"
                /\ Obs("Update.ResizeWait").err = "nil"
                /\ ~(Obs("Update.ResizeWait").disk
                     /\ Obs("Update.ResizeWait").st = CBS_STORAGE_STATUS_EXPANDING)
        /\ (result = "ok" /\ cfg.old < cfg.new) =>
                Called("Update.ResizeDisk") /\ "storage_size" \in partial
        /\ (Called("Update.ResizeWait") /\ Obs("Update.ResizeWait").err = "nil"
                /\ Obs("Update.ResizeWait").disk
                /\ Obs("Update.ResizeWait").st = CBS_STORAGE_STATUS_EXPANDING) =>
                /\ "storage_size" \notin partial
                /\ result \in {"none", "err_timeout"}

C4_ResizeWaitStep ==
    (Running /\ op = "CbsUpdate" /\ pc = "Update.ResizeWait" /\ HandlerStep) =>
        LET r == Obs("Update.ResizeWait")' IN
        (r.err = "nil" /\ r.disk /\ r.st = CBS_STORAGE_STATUS_EXPANDING) =>
            /\ partial' = partial
            /\ \/ pc' = pc /\ result' = "none" /\ attempts' = attempts + 1
               \/ result' = "err_timeout"

C4_CbsUpdateWaitsForExpanding ==
    [](C4_SizeRecordedAfterExpanding) /\ [][C4_ResizeWaitStep]_vars

\* An Update of storage_size alone succeeded: storage_size was recorded after the
\* wait had polled more than once and last saw the disk out of EXPANDING.
C4_Witness ==
    /\ op = "CbsUpdate" /\ "storage_size" \in partial /\ result = "ok"
    /\ cfg.changed = {"storage_size"} /\ attempts >= 1
    /\ Obs("Update.ResizeWait").disk /\ Obs("Update.ResizeWait").st = "UNATTACHED"
    /\ remote.size = cfg.new

\* The instance is listed among `workers` in state st.
ListedAs(workers, st) ==
    \E i \in DOMAIN workers :
        workers[i].InstanceId = TkeInstanceId /\ workers[i].InstanceState = st
Listed(workers) == \E i \in DOMAIN workers : workers[i].InstanceId = TkeInstanceId

\* C5: Kubernetes cluster attachment Create returns success only after, in this
\* order, AddExistedInstances listed the instance among the succeeded ids,
\* DescribeInstanceById showed the CVM RUNNING, and DescribeClusterInstances
\* listed the instance as a worker in state running; a worker reported failed, or
\* the instance missing from the list, ends Create with an error at once.
C5_CreateSuccessObserved ==
    (Done("TkeCreate") /\ result = "ok") =>
        /\ Before("Create.AddExistedInstances", "Create.DescribeInstanceById")
        /\ Before("Create.DescribeInstanceById", "Create.WaitClusterInstances")
        /\ Obs("Create.AddExistedInstances").err = "nil"
        /\ TkeInstanceId \in Obs("Create.AddExistedInstances").succ
        /\ Obs("Create.DescribeInstanceById").err = "nil"
        /\ Obs("Create.DescribeInstanceById").instance
        /\ Obs("Create.DescribeInstanceById").st = CVM_STATUS_RUNNING
        /\ Obs("Create.WaitClusterInstances").err = "nil"
        /\ ListedAs(Obs("Create.WaitClusterInstances").workers, "running")

C5_WaitStep ==
    (Running /\ op = "TkeCreate" /\ pc = "Create.WaitClusterInstances" /\ HandlerStep) =>
        LET r == Obs("Create.WaitClusterInstances")' IN
        (r.err = "nil" /\ (ListedAs(r.workers, "failed") \/ ~Listed(r.workers))) =>
            result' = "err_check"

C5_TkeCreateWaitsInOrder ==
    [](C5_CreateSuccessObserved) /\ [][C5_WaitStep]_vars

\* Create succeeded with the instance attached and running.
C5_Witness ==
    /\ Done("TkeCreate") /\ result = "ok" /\ id = TkeAttachmentId
    /\ ListedAs(Obs("Create.WaitClusterInstances").workers, "running")
    /\ Called("Read.DescribeClusterInstances")

\* C6: VPN gateway Read, when DescribeVpnGateways fails with the not-found code,
\* clears the resource id and returns without error; it does not crash.
C6_ReadNotFoundClearsId ==
    (Done("VpnRead") /\ Obs("Read.DescribeVpnGateways").err = VPCNotFound)
    => (result = "ok" /\ id = <<>>)

\* C7: route table entry Delete returns success as soon as a DeleteRoutes call
\* succeeds or fails with the not-found code; a failure that is not transient
\* (not retryable by retryError) is returned without another attempt.
C7_RouteDeleteNoRetryOfFatal ==
    (op = "RouteDelete" /\ Called("Delete.DeleteRoutes")) =>
        LET e == Obs("Delete.DeleteRoutes").err IN
        /\ (e \in {"nil", VPCNotFound}) => result = "ok"
        /\ (e \notin {"nil", VPCNotFound} /\ retryError(e, {}) = "fail") => IsErr(result)

\* C8: when every describe call Read makes succeeds, Kubernetes cluster
\* attachment Read clears the id if and only if the cluster does not exist, or
\* the CVM instance does not exist, or the instance is not among the workers;
\* otherwise the id is as it was.
C8_ReadClearsIdIffGone ==
    (Done("TkeRead") /\ Called("Read.DescribeCluster")
        /\ \A s \in Range(calls) : Obs(s).err = "nil")
    => LET gone ==
             \/ ~Obs("Read.DescribeCluster").has
             \/ Called("Read.DescribeInstanceById")
                    /\ ~Obs("Read.DescribeInstanceById").instance
             \/ Called("Read.DescribeClusterInstances")
                    /\ ~Listed(Obs("Read.DescribeClusterInstances").workers)
       IN /\ result = "ok"
          /\ gone => id = <<>>
          /\ ~gone => (id = TkeAttachmentId
                       /\ Called("Read.DescribeClusterInstances"))

\* Read cleared the id because the instance was not among the workers of a
\* cluster that has other workers.
C8_Witness ==
    /\ Done("TkeRead") /\ result = "ok" /\ id = <<>>
    /\ Called("Read.DescribeClusterInstances")
    /\ Obs("Read.DescribeClusterInstances").err = "nil"
    /\ Obs("Read.DescribeClusterInstances").workers # <<>>

CudOps == {"VpnCreate", "VpnDelete", "CbsUpdate", "CbsDelete", "RouteCreate",
           "RouteDelete", "TkeCreate"}

SawPrepaid ==
    /\ op = "VpnDelete" /\ Called("Delete.DescribeCharge")
    /\ Obs("Delete.DescribeCharge").err = "nil"
    /\ Obs("Delete.DescribeCharge").n = 1
    /\ Obs("Delete.DescribeCharge").charge = VPN_CHARGE_TYPE_PREPAID

\* C10: Delete of a VPN gateway whose remote charge type is PREPAID never sends
\* DeleteVpnGateway and returns an error.
C10_PrepaidNeverDeleted ==
    SawPrepaid =>
        /\ ~Called("Delete.DeleteVpnGateway")
        /\ (result # "none" => IsErr(result))

\* The charge check as coded: Delete of a PREPAID VPN gateway whose expired time
\* is still to come (or cannot be parsed) returns an error at once and never sends
\* DeleteVpnGateway, so Delete leaves the gateway as it is; a PREPAID gateway
\* whose expired time has passed goes on to the tunnel check and the delete.
UnexpiredPrepaidRefused ==
    SawPrepaid =>
        IF Obs("Delete.DescribeCharge").exp \in {"future", "bad"}
        THEN /\ result = "err_check"
             /\ calls = <<"Delete.DescribeCharge">>
        ELSE pc = "Delete.DescribeVpnConnections" \/ Called("Delete.DescribeVpnConnections")

ChargeStepLeavesRemote ==
    (Running /\ op = "VpnDelete" /\ pc = "Delete.DescribeCharge" /\ HandlerStep)
    => remote' = remote

UnexpiredPrepaidNotDeleted ==
    [](UnexpiredPrepaidRefused) /\ [][ChargeStepLeavesRemote]_vars

\* Delete refused a PREPAID gateway that has not expired and that still exists.
UnexpiredPrepaidWitness ==
    /\ SawPrepaid /\ Obs("Delete.DescribeCharge").exp = "future"
    /\ result = "err_check" /\ remote.st = VPN_STATE_AVAILABLE
    /\ remote.charge = VPN_CHARGE_TYPE_PREPAID

\* C11: an Update in which prepaid_period or prepaid_renew_flag changed returns an
\* error with no remote request sent and nothing recorded, whatever else changed,
\* and entering it leaves the gateway and the ID as they were.
C11_RenewRefused ==
    (op = "VpnUpdate" /\ cfg.changed \cap {"prepaid_period", "prepaid_renew_flag"} # {})
        => /\ result = "err_local"
           /\ calls = <<>> /\ obs = <<>> /\ partial = {}
C11_RenewStep ==
    (op = "none" /\ op' = "VpnUpdate"
     /\ cfg'.changed \cap {"prepaid_period", "prepaid_renew_flag"} # {})
        => remote' = remote /\ id' = id
C11_VpnUpdateRenewRefusedFirst == [](C11_RenewRefused) /\ [][C11_RenewStep]_vars
\* Update refused for a changed prepaid_period although name, bandwidth and tags
\* changed with it.
C11_Witness ==
    /\ op = "VpnUpdate" /\ result = "err_local"
    /\ {"prepaid_period", "name", "bandwidth", "tags"} \subseteq cfg.changed
    /\ remote.st = VPN_STATE_AVAILABLE

\* C12: Update accepts a change of charge_type only from PREPAID to
\* POSTPAID_BY_HOUR, whose request carries the new charge type; for every other
\* change of charge_type it returns an error, sends no ModifyVpnGatewayAttribute
\* request and does not record charge_type.
C12_OnlyPrepaidToPostpaidAccepted ==
    (op = "VpnUpdate" /\ cfg.old # cfg.new)
        => IF cfg.old = "PREPAID" /\ cfg.new = "POSTPAID_BY_HOUR"
           THEN Called("Update.ModifyVpnGatewayAttribute")
                    => Obs("Update.ModifyVpnGatewayAttribute").InstanceChargeType = cfg.new
           ELSE /\ result = "err_local"
                /\ ~Called("Update.ModifyVpnGatewayAttribute")
                /\ "charge_type" \notin partial

C14_OneLoginSetting ==
    op = "TkeCreate"
        => /\ Called("Create.AddExistedInstances") => (cfg.key_ids # cfg.password)
           /\ (cfg.key_ids = cfg.password)
                  => (result = "err_local" /\ calls = <<>> /\ id = <<>>)
\* Create refused with both key_ids and password set.
C14_Witness ==
    op = "TkeCreate" /\ cfg.key_ids /\ cfg.password /\ result = "err_local"

\* C15: CreateInstances sends no request and returns an error when exactly one of
\* vpcId and subnetId is non-empty, and when both are empty while securityGroups is
\* not; when both are non-empty the request carries both ids and the security
\* groups given.
C15_CreateInstancesVpcChecked ==
    op = "RedisCreate"
        => /\ (\/ (cfg.vpc_id = "") # (cfg.subnet_id = "")
               \/ (cfg.vpc_id = "" /\ cfg.subnet_id = "" /\ cfg.security_groups # {}))
                  => /\ ~Called("Create.CreateInstances")
                     /\ result # "ok"
                     /\ result = "none" => pc = "Create.DescribeZones"
           /\ (cfg.vpc_id # "" /\ cfg.subnet_id # "" /\ Called("Create.CreateInstances"))
                  => /\ Obs("Create.CreateInstances").req.VpcId = cfg.vpc_id
                     /\ Obs("Create.CreateInstances").req.SubnetId = cfg.subnet_id
                     /\ Obs("Create.CreateInstances").req.SecurityGroupIdList
                            = cfg.security_groups
\* CreateInstances refused security groups given without a VPC, the zone found.
C15_Witness ==
    /\ op = "RedisCreate" /\ result = "err_local"
    /\ cfg.vpc_id = "" /\ cfg.subnet_id = "" /\ cfg.security_groups # {}
    /\ Called("Create.DescribeZones") /\ Obs("Create.DescribeZones").has

\* C19: an Update that increases mem_size returns an error whenever UpgradeInstance
\* fails; it records mem_size and reports success only if UpgradeInstance succeeded
\* and the instance was afterwards seen online.
C19_UpgradeFailureReturned ==
    (op = "RedisUpdate" /\ Called("Update.UpgradeInstance"))
        => /\ Obs("Update.UpgradeInstance").err # "nil"
                  => (result # "ok" /\ "mem_size" \notin partial)
           /\ "mem_size" \in partial
                  => /\ Obs("Update.UpgradeInstance").err = "nil"
                     /\ Obs("Update.CheckRedisCreateOk").st = "online"

\* The call sites that wait for a task.
RedisTaskWaits ==
    {"Delete.DescribeTaskInfo.Destroy", "Delete.DescribeTaskInfo.CleanUp",
     "Update.DescribeTaskInfo"}

\* C20: a wait for a task polls again only after status running or preparing or
\* a transport error; any other status than succeed ends the wait at once with
\* an error.
C20_FailedTaskEndsWait ==
    (Running /\ pc \in RedisTaskWaits /\ Called(pc))
        => \/ Obs(pc).err = "net"
           \/ Obs(pc).err = "nil" /\ Obs(pc).status \in {"running", "preparing"}

\* The first image of a list whose OS name contains osName, letter case ignored:
\* its place in the list, 0 when there is none.
FirstOsMatch(images, osName) ==
    LET hits == {i \in DOMAIN images :
                    Contains(ToLower(images[i].OsName), ToLower(osName))}
    IN  IF hits = {} THEN 0 ELSE CHOOSE i \in hits : \A j \in hits : i <= j

\* C16: with os_name set, Read takes the first image in the order of sortImages
\* whose OS name contains os_name (letter case ignored), whatever image_name_regex
\* is, and returns "No image found" when no OS name matches, even if an image
\* name matches image_name_regex.
C16_OsNameFirst ==
    (op = "ImageRead" /\ cfg.os_name # <<>> /\ result # "none"
     /\ Obs("Read.DescribeImagesByFilter").err = "nil")
        => LET sorted == Obs("Read.DescribeImagesByFilter").sorted
               first == FirstOsMatch(sorted, cfg.os_name)
           IN  IF first = 0 THEN result = "err_check" /\ id = <<>>
               ELSE result = "ok" /\ id = <<"hash">> \o sorted[first].ImageId
\* Read took the second image by os_name although the first one matches
\* image_name_regex.
C16_Witness ==
    /\ op = "ImageRead" /\ result = "ok"
    /\ cfg.os_name = <<"c", "e">> /\ cfg.image_name_regex = <<"^", "a">>
    /\ LET sorted == Obs("Read.DescribeImagesByFilter").sorted IN
          /\ Len(sorted) = 2
          /\ sorted[1].ImageName = <<"a", "b">> /\ sorted[1].OsName = <<"U", "b">>
          /\ sorted[2].OsName = <<"C", "e">>
          /\ id = <<"hash">> \o sorted[2].ImageId

\* C17: with an assume_role block and session_duration 0, AssumeRole is sent with
\* DurationSeconds equal to TENCENTCLOUD_ASSUME_ROLE_SESSION_DURATION when that
\* holds a non-zero integer, and equal to 7200 in every other case, the variable
\* unset included.
C17_SessionDurationDefault ==
    (op = "providerConfigure" /\ cfg.assume_role /\ cfg.session_duration = 0)
        => /\ result # "err_local"
           /\ Called("Configure.AssumeRole")
                  => Obs("Configure.AssumeRole").DurationSeconds
                        = IF Atoi(cfg.env).ok /\ Atoi(cfg.env).value # 0
                          THEN Atoi(cfg.env).value ELSE 7200

\* The last call a check of the CDN domain made.
CdnLastCall ==
    IF Called("Check.Describe") THEN Obs("Check.Describe") ELSE Obs("Check.Describe0")
\* The response shows no domain: the host-not-found code or an empty list.
CdnShowsAbsent(o) ==
    o.err = "ResourceNotFound.CdnHostNotExists" \/ (o.err = "nil" /\ o.Domains = <<>>)

\* C18: DescribeDomainsConfigByDomain returns (nil, nil) on the host-not-found
\* code and on an empty list, the first domain of a list that is not empty, and
\* the API error for any other failure; the destroy check passes exactly when the
\* domain is shown absent, and the domain is then absent.
C18_EveryCall ==
    \A site \in {"Check.Describe0", "Check.Describe"} :
        Called(site) =>
            LET o == Obs(site) IN
            IF CdnShowsAbsent(o) THEN o.domainConfig = "nil" /\ o.errRet = "nil"
            ELSE IF o.err = "nil" THEN o.domainConfig = o.Domains[1] /\ o.errRet = "nil"
            ELSE o.domainConfig = "nil" /\ o.errRet = o.err
C18_DestroyCheck ==
    Done("CdnDestroyCheck")
        => /\ result = "ok" <=> CdnShowsAbsent(CdnLastCall)
           /\ result = "err_check" <=> (CdnLastCall.err = "nil" /\ CdnLastCall.Domains # <<>>)
C18_DestroyStep ==
    (op = "CdnDestroyCheck" /\ result = "none" /\ result' # "none")
        => /\ result' = "ok" => remote = <<>>
           /\ result' = "err_check" => remote # <<>>
C18_AbsentDomainIsNilNoError ==
    [](C18_EveryCall /\ C18_DestroyCheck) /\ [][C18_DestroyStep]_vars
\* The destroy check passed on the host-not-found code, met in the retry loop.
C18_Witness ==
    /\ Done("CdnDestroyCheck") /\ result = "ok"
    /\ Called("Check.Describe")
    /\ Obs("Check.Describe").err = "ResourceNotFound.CdnHostNotExists"

\* The requests and waits of Delete in the order of the code.
RedisDeleteSites ==
    <<"Delete.DestroyPostpaidInstance", "Delete.DescribeTaskInfo.Destroy",
      "Delete.CleanUpInstance", "Delete.DescribeTaskInfo.CleanUp">>

\* C21: Delete of a Redis instance is a strict two-phase sequence: CleanUpInstance
\* is sent only after the task of DestroyPostpaidInstance was seen with status
\* succeed, Delete returns success only after the task of CleanUpInstance was seen
\* with status succeed, and when a request or a wait fails Delete returns the
\* error and sends no later request.
C21_TwoPhases ==
    op = "RedisDelete"
        => /\ Len(calls) <= 4 /\ calls = SubSeq(RedisDeleteSites, 1, Len(calls))
           /\ Called("Delete.DescribeTaskInfo.Destroy")
                  => Obs("Delete.DestroyPostpaidInstance").err = "nil"
           /\ Called("Delete.CleanUpInstance")
                  => /\ Obs("Delete.DescribeTaskInfo.Destroy").err = "nil"
                     /\ Obs("Delete.DescribeTaskInfo.Destroy").status = "succeed"
           /\ Called("Delete.DescribeTaskInfo.CleanUp")
                  => Obs("Delete.CleanUpInstance").err = "nil"
           /\ result = "ok"
                  => /\ Obs("Delete.DescribeTaskInfo.CleanUp").err = "nil"
                     /\ Obs("Delete.DescribeTaskInfo.CleanUp").status = "succeed"
           /\ \A i \in {1, 3} :
                  (Called(RedisDeleteSites[i]) /\ Obs(RedisDeleteSites[i]).err # "nil")
                      => /\ result = "err_remote"
                         /\ Len(calls) = i
           /\ result \notin {"none", "ok"}
                  => /\ result \in {"err_remote", "err_check", "err_timeout"}
                     /\ calls # <<>>
                     /\ LET r == Obs(calls[Len(calls)]) IN
                        ~(r.err = "nil" /\ Len(calls) \in {2, 4} /\ r.status = "succeed")
                        /\ ~(r.err = "nil" /\ Len(calls) \in {1, 3})
\* After Delete has returned it sends no request.
C21_ReturnedStep ==
    (op = "RedisDelete" /\ result # "none")
        => (op' = "none" \/ (calls' = calls /\ obs' = obs /\ result' = result))
C21_DeleteTwoPhaseSequence == [](C21_TwoPhases) /\ [][C21_ReturnedStep]_vars
\* Delete succeeded after both requests and both waits, the second wait polled
\* more than once, and the instance is gone.
C21_Witness ==
    /\ op = "RedisDelete" /\ result = "ok"
    /\ calls = RedisDeleteSites
    /\ attempts >= 1
    /\ remote.st = "ABSENT"

\* C22: Read of a Redis instance clears the ID and returns no error when the
\* instance is absent or its status is isolate or todelete; for status online,
\* init or processing it keeps the ID; for any other status and for any failure
\* of the describe call it returns an error and leaves the ID unchanged.
C22_ReadReconcilesId ==
    (op = "RedisRead" /\ Called("Read.CheckRedisCreateOk"))
        => LET r == Obs("Read.CheckRedisCreateOk") IN
           IF r.err = "nil" /\ (r.n = 0 \/ (r.n = 1 /\ r.st \in {"isolate", "todelete"}))
           THEN id = <<>> /\ result = "ok"
           ELSE IF r.err = "nil" /\ r.n = 1 /\ r.st \in {"online", "init", "processing"}
           THEN id = <<"crs-1">>
           ELSE /\ result \in {"err_remote", "err_check"}
                /\ id = <<"crs-1">>
\* Read cleared the ID of an isolated instance and returned no error.
C22_Witness ==
    /\ op = "RedisRead" /\ result = "ok" /\ id = <<>>
    /\ Obs("Read.CheckRedisCreateOk").err = "nil"
    /\ Obs("Read.CheckRedisCreateOk").n = 1
    /\ Obs("Read.CheckRedisCreateOk").st = "isolate"

====
